---- MODULE Spec2Model ----
(***************************************************************************)
(* Parallel analyzer orchestration and consolidation engine               *)
(* (fase3_evaluator/integration): run_parallel_analysis, the collecting   *)
(* loop of _run_analyzers_parallel, the anonymization decision, the       *)
(* Anonymizer, consolidation and the schema check.                        *)
(*                                                                         *)
(* Conventions.  A Python dict is a function whose DOMAIN is its key set.  *)
(* A value that may be None is a sequence of length 0 (None) or 1.         *)
(* Table cells are strings; NaN is the null cell.  Regular expressions and *)
(* substring tests are evaluated on the finite vocabulary of column names  *)
(* and cell values below and recorded as lookup sets.  Wall-clock readings *)
(* (datetime.now) are one token, Now.  Risk scores are kept in tenths.     *)
(***************************************************************************)
EXTENDS Integers, Sequences, FiniteSets, TLC

\* ---------------------------------------------------------------- bounds
MaxRows == 2

\* At most this many analyzers of one run complete other than nominally.
MaxFaults == 2

\* Largest number of issues, penalties or cells a score is computed from.
MaxIssues == 6
MaxAgeRows == 4

\* ------------------------------------------------------ program constants
TIMEOUT_SECONDS == 300
MAX_WORKERS == 6
PII_RISK_THRESHOLD_x10 == 50
MaxRiskScore_x10 == 100
ML_MIN_SAMPLES == 100
ML_MIN_FEATURES == 5
GEOSPATIAL_MIN_POINTS == 50
SEMANTIC_AGE_MIN == 0
SEMANTIC_AGE_MAX == 120

NaN == "NaN"
Now == "now"

\* The six analyzers in the order of the `analyzers` dict.
AnalyzerOrder ==
  <<"completeness", "typology", "semantic", "geospatial", "anonymization", "ml_readiness">>

Analyzers == {AnalyzerOrder[i] : i \in 1..Len(AnalyzerOrder)}

\* consolidated_json key of each analyzer.
ConsolidatedKey ==
  [completeness |-> "completitud", typology |-> "tipos", semantic |-> "semantica",
   geospatial |-> "geoespacial", anonymization |-> "anonimizacion", ml_readiness |-> "ml"]

SlotKeys == {ConsolidatedKey[a] : a \in Analyzers}

\* ------------------------------------------------------------ the tables
\* Column names of the vocabulary and, for each, the keywords of the code's
\* keyword lists that are substrings of the lower-cased name.
ColumnNames ==
  {"nombre", "edad", "tipo", "email", "telefono", "direccion", "dni", "paciente",
   "observacion", "fecha_alta", "fecha_baja", "municipio", "latitud", "longitud"}

KeywordsIn ==
  [nombre |-> {"nombre"}, edad |-> {"edad"}, tipo |-> {"tipo"}, email |-> {"email"},
   telefono |-> {"telefono"}, direccion |-> {"direccion"}, dni |-> {"dni"},
   paciente |-> {"paciente"}, observacion |-> {}, fecha_alta |-> {"fecha"},
   fecha_baja |-> {"fecha"}, municipio |-> {"municipio"}, latitud |-> {"latitud", "lat"},
   longitud |-> {"longitud", "lon"}]

\* any(kw in col_lower for kw in kws)
AnyKeyword(col, kws) == KeywordsIn[col] \cap kws # {}

\* Cell of row i (1-based) of a vocabulary column. "EspaA+-a" stands for the
\* text whose UTF-8 bytes were decoded as Latin-1 (A-tilde, plus-minus sign).
CellOf(col, i) ==
  CASE col \in {"nombre", "paciente"} ->
         (IF i = 1 THEN "Ana Ruiz" ELSE IF i = 2 THEN "Luis Paz" ELSE NaN)
    [] col = "edad"      -> (IF i % 2 = 1 THEN "34" ELSE "51")
    [] col = "email"     -> (IF i = 1 THEN "ana@x.org" ELSE IF i = 2 THEN "luis.paz" ELSE NaN)
    [] col = "telefono"  -> (IF i = 1 THEN "612345678" ELSE IF i = 2 THEN "12" ELSE NaN)
    [] col = "direccion" ->
         (IF i = 1 THEN "Calle Mayor 1 Madrid" ELSE IF i = 2 THEN "Madrid" ELSE NaN)
    [] col = "dni"       -> (IF i = 1 THEN "12345678Z" ELSE NaN)
    [] col = "observacion" ->
         (IF i = 1 THEN "EspaA+-a" ELSE IF i = 2 THEN "caf\\u00e9" ELSE "Madrid")
    [] col = "fecha_alta" -> (IF i % 2 = 1 THEN "2026-01-15" ELSE "2027-01-15")
    [] col = "fecha_baja" -> (IF i % 2 = 1 THEN "2027-01-15" ELSE "sin fecha")
    [] OTHER             -> NaN

\* pandas dtype of a vocabulary column.
DType(col) ==
  CASE col = "edad" -> "int64"
    [] col = "tipo" -> "float64"
    [] OTHER        -> "object"

\* A table: ordered column names, row count, and the cells of each column.
MakeTable(cols, n) ==
  [columns |-> cols,
   nrows   |-> n,
   data    |-> [c \in {cols[i] : i \in 1..Len(cols)} |-> [i \in 1..n |-> CellOf(c, i)]]]

ColumnChoices ==
  {<< >>, <<"edad">>, <<"nombre", "edad">>, <<"nombre", "tipo">>, <<"email">>}

Tables == {MakeTable(cols, n) : cols \in ColumnChoices, n \in 0..MaxRows}

ColumnSet(t) == {t.columns[i] : i \in 1..Len(t.columns)}

\* A faulty variant: only a table without columns counts as empty.
IsEmpty_ColumnsOnly(t) == Len(t.columns) = 0

\* DataFrame.empty: some axis has length 0.
IsEmpty(t) == Len(t.columns) = 0 \/ t.nrows = 0

\* series.dropna(): the non-null cells in row order.
RECURSIVE DropNa(_)
DropNa(s) ==
  IF Len(s) = 0 THEN << >>
  ELSE IF Head(s) = NaN THEN DropNa(Tail(s))
       ELSE <<Head(s)>> \o DropNa(Tail(s))

SeqToSet(s) == {s[i] : i \in 1..Len(s)}

\* series.nunique(): distinct non-null values.
NUnique(s) == Cardinality(SeqToSet(DropNa(s)))

\* First n elements (list[:n], head(n)).
Take(s, n) == IF Len(s) <= n THEN s ELSE SubSeq(s, 1, n)

Min(a, b) == IF a <= b THEN a ELSE b

\* Elements of s that satisfy the membership test, in order.
RECURSIVE FilterIn(_, _)
FilterIn(s, S) ==
  IF Len(s) = 0 THEN << >>
  ELSE IF Head(s) \in S THEN <<Head(s)>> \o FilterIn(Tail(s), S)
       ELSE FilterIn(Tail(s), S)

\* ------------------------------------------------- PII analyzer (4.5)
\* Vocabulary values matched by each detector's regular expression.
NamePatternValues == {"Ana Ruiz", "Luis Paz"}
EmailPatternValues == {"ana@x.org"}
PhonePatternValues == {"612345678"}
DetailedAddressValues == {"Calle Mayor 1 Madrid"}
DniPatternValues == {"12345678Z"}
IbanPatternValues == {}
CreditCardPatternValues == {}

PII_ENTITIES ==
  <<"PERSON", "EMAIL_ADDRESS", "PHONE_NUMBER", "LOCATION", "ID_NUMBER", "IBAN_CODE", "CREDIT_CARD">>

NoEntity(type) ==
  [type |-> type, count |-> 0, examples |-> << >>, risk_score |-> 0, confidence |-> "baja"]

Redacted(n) == [i \in 1..n |-> "REDACTED"]

_detect_person_names(series, column_name) ==
  IF AnyKeyword(column_name, {"nombre", "apellido", "paciente", "fallecido", "persona"})
  THEN [type |-> "PERSON", count |-> Len(series), examples |-> Take(series, 3),
        risk_score |-> 30, confidence |-> "alta"]
  ELSE LET matches == FilterIn(series, NamePatternValues)
       IN IF 10 * Len(matches) > 3 * Len(series)
          THEN [type |-> "PERSON", count |-> Len(matches), examples |-> Take(matches, 3),
                risk_score |-> 25, confidence |-> "media"]
          ELSE NoEntity("PERSON")

_detect_emails(series, column_name) ==
  LET matches == FilterIn(series, EmailPatternValues)
  IN IF Len(matches) > 0
     THEN [type |-> "EMAIL_ADDRESS", count |-> Len(matches), examples |-> Take(matches, 2),
           risk_score |-> 20, confidence |-> "alta"]
     ELSE NoEntity("EMAIL_ADDRESS")

\* Both phone patterns are applied and their hits concatenated.
_detect_phones(series, column_name) ==
  LET matches == FilterIn(series, PhonePatternValues) \o FilterIn(series, PhonePatternValues)
  IN IF Len(matches) > 0
     THEN [type |-> "PHONE_NUMBER", count |-> Len(matches), examples |-> Take(matches, 2),
           risk_score |-> 15, confidence |-> "media"]
     ELSE NoEntity("PHONE_NUMBER")

_detect_addresses(series, column_name) ==
  LET detailed == FilterIn(series, DetailedAddressValues)
  IN IF AnyKeyword(column_name, {"direccion", "address", "domicilio", "calle"})
        /\ Len(detailed) > 0
     THEN [type |-> "LOCATION", count |-> Len(detailed), examples |-> Take(detailed, 2),
           risk_score |-> 25, confidence |-> "alta"]
     ELSE NoEntity("LOCATION")

_detect_id_numbers(series, column_name) ==
  IF AnyKeyword(column_name, {"dni", "rut", "cedula", "identificacion", "id"})
  THEN [type |-> "ID_NUMBER", count |-> Len(series), examples |-> Take(series, 2),
        risk_score |-> 30, confidence |-> "alta"]
  ELSE LET matches == FilterIn(series, DniPatternValues)
       IN IF Len(matches) > 0
          THEN [type |-> "ID_NUMBER", count |-> Len(matches), examples |-> Take(matches, 2),
                risk_score |-> 30, confidence |-> "alta"]
          ELSE NoEntity("ID_NUMBER")

_detect_iban(series, column_name) ==
  LET matches == FilterIn(series, IbanPatternValues)
  IN IF Len(matches) > 0
     THEN [type |-> "IBAN_CODE", count |-> Len(matches),
           examples |-> Redacted(Min(2, Len(matches))), risk_score |-> 25, confidence |-> "alta"]
     ELSE NoEntity("IBAN_CODE")

_detect_credit_cards(series, column_name) ==
  LET matches == FilterIn(series, CreditCardPatternValues)
  IN IF Len(matches) > 0
     THEN [type |-> "CREDIT_CARD", count |-> Len(matches),
           examples |-> Redacted(Min(2, Len(matches))), risk_score |-> 30, confidence |-> "media"]
     ELSE NoEntity("CREDIT_CARD")

\* _get_detector_function(entity_type)(series, column_name)
Detect(entity_type, series, column_name) ==
  CASE entity_type = "PERSON"        -> _detect_person_names(series, column_name)
    [] entity_type = "EMAIL_ADDRESS" -> _detect_emails(series, column_name)
    [] entity_type = "PHONE_NUMBER"  -> _detect_phones(series, column_name)
    [] entity_type = "LOCATION"      -> _detect_addresses(series, column_name)
    [] entity_type = "ID_NUMBER"     -> _detect_id_numbers(series, column_name)
    [] entity_type = "IBAN_CODE"     -> _detect_iban(series, column_name)
    [] OTHER                         -> _detect_credit_cards(series, column_name)

RECURSIVE SumRisk(_)
SumRisk(entities) ==
  IF Len(entities) = 0 THEN 0 ELSE Head(entities).risk_score + SumRisk(Tail(entities))

\* A fault: every detection is kept, found or not.
KeepDetected_All(detected) == <<detected>>

\* _analyze_column_pii, lines 118-119: only a detection with count > 0 is kept.
KeepDetected(detected) == IF detected.count > 0 THEN <<detected>> ELSE << >>

\* Entities with count > 0, in registry order, from registry position k on.
RECURSIVE EntitiesFrom(_, _, _)
EntitiesFrom(k, series, column_name) ==
  IF k > Len(PII_ENTITIES) THEN << >>
  ELSE KeepDetected(Detect(PII_ENTITIES[k], series, column_name))
       \o EntitiesFrom(k + 1, series, column_name)

\* _analyze_column_pii, lines 103-120: an all-null column has no entities.
ColumnEntities(col_data, column) ==
  IF Len(col_data) = 0 THEN << >> ELSE EntitiesFrom(1, col_data, column)

\* _analyze_column_pii, lines 104-108 and 122-128: the column's result.
ColumnPii(entities) ==
  [has_pii |-> Len(entities) > 0,
   entities |-> entities,
   column_risk_score |-> SumRisk(entities)]

_analyze_column_pii(t, column) == ColumnPii(ColumnEntities(DropNa(t.data[column]), column))

\* A fault: the lookup without the fallback after the loop, so that a score
\* outside every half-open range has no level.
_determine_risk_level_NoFallback(risk_score) ==
  IF 0 <= risk_score /\ risk_score < 30 THEN "bajo"
  ELSE IF 30 <= risk_score /\ risk_score < 50 THEN "moderado"
  ELSE IF 50 <= risk_score /\ risk_score < 70 THEN "alto"
  ELSE IF 70 <= risk_score /\ risk_score < MaxRiskScore_x10 THEN "critico"
  ELSE "None"

\* Risk level of a score in tenths (PII_RISK_LEVELS lookup, "critico" fallback).
_determine_risk_level(risk_score) ==
  IF 0 <= risk_score /\ risk_score < 30 THEN "bajo"
  ELSE IF 30 <= risk_score /\ risk_score < 50 THEN "moderado"
  ELSE IF 50 <= risk_score /\ risk_score < 70 THEN "alto"
  ELSE "critico"

\* entities of one column as reported in entities_found
EntityEntries(col, entities) ==
  [i \in 1..Len(entities) |->
     [type |-> entities[i].type, column |-> col, count |-> entities[i].count,
      examples |-> Take(entities[i].examples, 2),
      risk_contribution |-> entities[i].risk_score]]

\* analyze_anonymization, lines 34-51: one iteration of the loop over
\* df.columns, `rest` being what the later columns contribute.
ScanColumn(col, col_analysis, rest) ==
  IF col_analysis.has_pii
  THEN [pii_detected |-> TRUE,
        columns_with_pii |-> <<col>> \o rest.columns_with_pii,
        entities_found |-> EntityEntries(col, col_analysis.entities) \o rest.entities_found,
        risk |-> col_analysis.column_risk_score + rest.risk]
  ELSE rest

\* The loop over df.columns, from column position k on: the PII columns,
\* the entities found and the summed column risk.
RECURSIVE PiiScan(_, _)
PiiScan(t, k) ==
  IF k > Len(t.columns)
  THEN [pii_detected |-> FALSE, columns_with_pii |-> << >>, entities_found |-> << >>,
        risk |-> 0]
  ELSE ScanColumn(t.columns[k], _analyze_column_pii(t, t.columns[k]), PiiScan(t, k + 1))

RECURSIVE SumCount(_)
SumCount(es) == IF Len(es) = 0 THEN 0 ELSE Head(es).count + SumCount(Tail(es))

RECURSIVE HighRisk(_)
HighRisk(es) ==
  IF Len(es) = 0 THEN << >>
  ELSE (IF Head(es).risk_contribution >= 20 THEN <<Head(es)>> ELSE << >>) \o HighRisk(Tail(es))

_generate_anonymization_recommendations(pii_detected, risk_level, entities_found, columns_with_pii) ==
  IF ~pii_detected
  THEN <<[priority |-> "informacion", field |-> "general",
          issue |-> "No se detecto PII", action |-> "Mantener buenas practicas",
          impact |-> "Ninguno"]>>
  ELSE (IF risk_level \in {"critico", "alto"}
        THEN <<[priority |-> "critica", field |-> "columns_with_pii[:3]",
                issue |-> "Riesgo - PII detectada", action |-> "ELIMINAR o hash",
                impact |-> "Critico"]>>
        ELSE << >>)
       \o LET top == Take(HighRisk(entities_found), 3)
          IN [i \in 1..Len(top) |->
                [priority |-> "alta", field |-> top[i].column,
                 issue |-> "instancias de entidad", action |-> top[i].type,
                 impact |-> "Alto"]]

\* analyze_anonymization, lines 76 and 87: the score against the threshold.
RequiresAction(risk_score) == risk_score >= PII_RISK_THRESHOLD_x10

AnonymizationResult(t, scan) ==
  LET pii_detected == scan.pii_detected
      risk_score == IF Len(t.columns) > 0
                    THEN Min(MaxRiskScore_x10, (scan.risk * 10) \div Len(t.columns))
                    ELSE 0
      risk_level == _determine_risk_level(risk_score)
  IN [summary |->
        [pii_detected |-> pii_detected,
         risk_score |-> risk_score,
         risk_level |-> risk_level,
         columns_with_pii_count |-> Len(scan.columns_with_pii),
         entity_types_found |->
           Cardinality({scan.entities_found[i].type : i \in 1..Len(scan.entities_found)}),
         total_pii_instances |-> SumCount(scan.entities_found),
         requires_action |-> RequiresAction(risk_score)],
      entities_found |-> scan.entities_found,
      columns_with_pii |-> scan.columns_with_pii,
      risk_assessment |->
        [score |-> risk_score, level |-> risk_level,
         threshold |-> PII_RISK_THRESHOLD_x10,
         critical |-> RequiresAction(risk_score)],
      recommendations |->
        _generate_anonymization_recommendations(
          pii_detected, risk_level, scan.entities_found, scan.columns_with_pii),
      analysis_timestamp |-> Now]

analyze_anonymization_body(t) == AnonymizationResult(t, PiiScan(t, 1))

\* ------------------------------------------- the other five analyzers
\* What an analyzer's detail collections are computed from.
Digest(t) == [columns |-> t.columns, rows |-> t.nrows]

\* A dict with these keys, its values computed from the table.
Detail(keys, t) == [k \in keys |-> Digest(t)]

RECURSIVE CountNaN(_)
CountNaN(s) ==
  IF Len(s) = 0 THEN 0 ELSE (IF Head(s) = NaN THEN 1 ELSE 0) + CountNaN(Tail(s))

RECURSIVE MissingCells(_, _)
MissingCells(t, k) ==
  IF k > Len(t.columns) THEN 0
  ELSE CountNaN(t.data[t.columns[k]]) + MissingCells(t, k + 1)

analyze_completeness_body(t) ==
  [summary |->
     [total_cells |-> Len(t.columns) * t.nrows,
      missing_cells |-> MissingCells(t, 1),
      total_columns |-> Len(t.columns),
      total_rows |-> t.nrows,
      analysis_timestamp |-> Now],
   columns_analysis |-> [c \in ColumnSet(t) |-> [missing_count |-> CountNaN(t.data[c])]],
   critical_fields_missing |-> Digest(t),
   top_missing_columns |-> Digest(t),
   evaluation |->
     Detail({"score", "level", "message", "critical_issues_count", "meets_threshold"}, t),
   recommendations |-> Digest(t)]

analyze_typology_body(t) ==
  [summary |->
     [total_columns |-> Len(t.columns),
      inconsistencies_count |-> Digest(t),
      encoding_issues_count |-> Digest(t),
      type_distribution |-> Digest(t),
      quality_score |-> Digest(t)],
   columns_typology |-> [c \in ColumnSet(t) |-> [pandas_dtype |-> DType(c)]],
   inconsistencies |-> Digest(t),
   encoding_issues |-> Digest(t),
   recommendations |-> Digest(t),
   analysis_timestamp |-> Now]

analyze_semantic_body(t) ==
  [summary |-> Detail({"total_issues", "critical_issues", "score", "quality_level"}, t),
   edad_invalida |-> Digest(t),
   fechas_incoherentes |-> Digest(t),
   metodos_no_estandarizados |-> Digest(t),
   distribuciones_atipicas |-> Digest(t),
   valores_imposibles |-> Digest(t),
   recommendations |-> Digest(t),
   analysis_timestamp |-> Now]

\* First column whose name contains one of the keywords; None if there is none.
RECURSIVE FindColumnFrom(_, _, _)
FindColumnFrom(t, keywords, k) ==
  IF k > Len(t.columns) THEN << >>
  ELSE IF AnyKeyword(t.columns[k], keywords) THEN <<t.columns[k]>>
       ELSE FindColumnFrom(t, keywords, k + 1)

_find_column(t, keywords) == FindColumnFrom(t, keywords, 1)

analyze_geospatial_body(t) ==
  LET lat_col == _find_column(t, {"latitud", "lat", "latitude"})
      lon_col == _find_column(t, {"longitud", "lon", "lng", "longitude"})
      address_col == _find_column(t, {"direccion", "address", "domicilio"})
      municipality_col == _find_column(t, {"municipio", "comuna", "city", "ciudad", "localidad"})
  IN [summary |->
        Detail({"geocodable", "coverage", "quality", "clustering_feasible", "score",
                "primary_method"}, t),
      coordinates_analysis |->
        IF lat_col # << >> /\ lon_col # << >> THEN <<Digest(t)>> ELSE << >>,
      address_analysis |-> IF address_col # << >> THEN <<Digest(t)>> ELSE << >>,
      municipality_analysis |-> IF municipality_col # << >> THEN <<Digest(t)>> ELSE << >>,
      geocoding_capability |-> Digest(t),
      clustering_potential |-> Detail({"feasible", "method", "min_samples_met"}, t),
      required_fields |-> Digest(t),
      recommendations |-> Digest(t),
      analysis_timestamp |-> Now]

\* Vocabulary values v with str(v).lower() in ['si','no','true','false','1','0'].
BooleanTokenValues == {}

TargetKeywords ==
  {"tipo_evento", "tipo", "resultado", "consumado", "intento", "desenlace",
   "outcome", "target", "label"}

RECURSIVE KeywordTargetFrom(_, _)
KeywordTargetFrom(t, k) ==
  IF k > Len(t.columns) THEN << >>
  ELSE IF AnyKeyword(t.columns[k], TargetKeywords) /\ NUnique(t.data[t.columns[k]]) <= 10
       THEN <<t.columns[k]>>
       ELSE KeywordTargetFrom(t, k + 1)

RECURSIVE BinaryTargetFrom(_, _)
BinaryTargetFrom(t, k) ==
  IF k > Len(t.columns) THEN << >>
  ELSE IF NUnique(t.data[t.columns[k]]) = 2
          /\ SeqToSet(DropNa(t.data[t.columns[k]])) \cap BooleanTokenValues # {}
       THEN <<t.columns[k]>>
       ELSE BinaryTargetFrom(t, k + 1)

_identify_target_column(t) ==
  IF KeywordTargetFrom(t, 1) # << >> THEN KeywordTargetFrom(t, 1) ELSE BinaryTargetFrom(t, 1)

\* Occurrences of v in s.
RECURSIVE CountOf(_, _)
CountOf(s, v) ==
  IF Len(s) = 0 THEN 0 ELSE (IF Head(s) = v THEN 1 ELSE 0) + CountOf(Tail(s), v)

\* None when the target has no non-null value.
_analyze_class_balance(t, target_col) ==
  LET target_series == DropNa(t.data[target_col])
      classes == SeqToSet(target_series)
      min_count == CHOOSE m \in {CountOf(target_series, c) : c \in classes} :
                     \A c \in classes : m <= CountOf(target_series, c)
  IN IF Len(target_series) = 0 THEN << >>
     ELSE <<[column |-> target_col,
             n_classes |-> Cardinality(classes),
             requires_balancing |-> 5 * min_count < Len(target_series)]>>

\* Features of datetime dtype among the columns that are not the target.
DatetimeFeatures(t, target_col) ==
  {c \in ColumnSet(t) : <<c>> # target_col /\ DType(c) = "datetime64[ns]"}

Suggestion(task, models) == [task |-> task, models |-> models, reason |-> "reason"]

_suggest_models(target_col, balance_analysis, datetime_features, n_samples) ==
  IF target_col = << >>
  THEN <<Suggestion("clustering", <<"K-means", "DBSCAN", "Hierarchical Clustering">>)>>
  ELSE (IF balance_analysis # << >>
        THEN LET n_classes == balance_analysis[1].n_classes
             IN IF n_classes = 2
                THEN (IF n_samples < 1000
                      THEN <<Suggestion("clasificacion_binaria",
                               <<"Logistic Regression", "Random Forest", "XGBoost">>)>>
                      ELSE <<Suggestion("clasificacion_binaria",
                               <<"Random Forest", "XGBoost", "LightGBM", "Redes Neuronales">>)>>)
                     \o (IF balance_analysis[1].requires_balancing
                         THEN <<Suggestion("manejo_desbalance",
                                  <<"SMOTE", "Class weights", "Undersampling">>)>>
                         ELSE << >>)
                ELSE IF n_classes <= 10
                     THEN <<Suggestion("clasificacion_multiclase",
                              <<"Random Forest", "XGBoost", "Multi-class Logistic Regression">>)>>
                     ELSE << >>
        ELSE << >>)
       \o (IF datetime_features # {}
           THEN <<Suggestion("series_temporales", <<"ARIMA", "Prophet", "LSTM">>)>>
           ELSE << >>)

analyze_ml_readiness_body(t) ==
  LET target_col == _identify_target_column(t)
      balance_analysis ==
        IF target_col # << >> THEN _analyze_class_balance(t, target_col[1]) ELSE << >>
      datetime_features == DatetimeFeatures(t, target_col)
  IN [summary |-> [has_target |-> balance_analysis # << >>],
      target_column |-> target_col,
      features_analysis |-> [datetime_features |-> datetime_features],
      balance_analysis |-> balance_analysis,
      leakage_risks |-> Digest(t),
      correlation_analysis |-> Digest(t),
      ml_viability |-> Detail({"viable", "confidence", "blockers", "warnings", "score"}, t),
      model_suggestions |->
        _suggest_models(target_col, balance_analysis, datetime_features, t.nrows),
      recommendations |-> Digest(t),
      analysis_timestamp |-> Now]

\* ------------------------------------------------------------ the scores
\* A score is the exact fraction num / den (den > 0).
Max(a, b) == IF a >= b THEN a ELSE b

Frac(num, den) == [num |-> num, den |-> den]

\* A faulty variant: the penalty for critical fields is not clamped at 0.
_evaluate_completeness_NoClamp(missing_cells, total_cells, critical_missing_count) ==
  Frac(Max(0, 100 * total_cells - 100 * missing_cells)
         - (IF critical_missing_count > 0
            THEN Min(30, critical_missing_count * 10) * total_cells ELSE 0),
       total_cells)

\* _evaluate_completeness on missing_percentage = missing_cells / total_cells * 100
\* (analyze_completeness, lines 30-32): the score.
_evaluate_completeness(missing_cells, total_cells, critical_missing_count) ==
  Frac(IF critical_missing_count > 0
       THEN Max(0, Max(0, 100 * total_cells - 100 * missing_cells)
                     - Min(30, critical_missing_count * 10) * total_cells)
       ELSE Max(0, 100 * total_cells - 100 * missing_cells),
       total_cells)

\* _calculate_typology_score
_calculate_typology_score(total_cols, inconsistencies_count, encoding_issues_count) ==
  IF total_cols > 0
  THEN Frac(Max(0, 100 * total_cols - 40 * inconsistencies_count
                     - 30 * encoding_issues_count),
            total_cols)
  ELSE Frac(100, 1)

\* _generate_semantic_summary: the score.
_generate_semantic_summary(total_issues, critical_issues) ==
  Frac(Max(0, 100 - critical_issues * 10 - total_issues * 2), 1)

\* Values of geocoding_capability["quality"] (_assess_geocoding_capability).
GeocodingQualities == {"none", "excelente", "buena", "parcial", "basica"}

\* A column of many rows is held by its content: for each value, the number
\* of rows that hold it (0 for a value the column does not hold).
\* Series.value_counts(): the values the column holds, each with its count.
value_counts(column) == [v \in {w \in DOMAIN column : column[w] > 0} |-> column[v]]

\* Series.nunique(): the number of distinct values of the series.
nunique(series) == Cardinality({series[k] : k \in DOMAIN series})

RECURSIVE SumOver(_, _)
SumOver(f, keys) ==
  IF keys = {} THEN 0
  ELSE LET k == CHOOSE x \in keys : TRUE IN f[k] + SumOver(f, keys \ {k})

\* _analyze_municipalities, lines 216-240, without the regional part.
_analyze_municipalities(total, municipalities) ==
  LET municipality_counts == value_counts(municipalities) IN
    [total_records |-> total,
     non_null_count |-> SumOver(municipalities, DOMAIN municipalities),
     unique_municipalities |-> nunique(municipality_counts)]

\* _analyze_coordinates, lines 106-166: the share of rows with a valid pair.
_analyze_coordinates(total, valid_pairs) ==
  [total_records |-> total,
   valid_pairs |-> valid_pairs,
   coverage |-> IF total > 0 THEN Frac(valid_pairs, total) ELSE Frac(0, 1)]

\* _assess_clustering_potential, lines 309-349; coverage >= 0.5 on the exact
\* fraction.
_assess_clustering_potential(n_rows, coordinates_analysis, municipality_analysis) ==
  IF n_rows < GEOSPATIAL_MIN_POINTS
  THEN [feasible |-> FALSE, method |-> "None", min_samples_met |-> FALSE]
  ELSE IF /\ coordinates_analysis # << >>
          /\ 2 * coordinates_analysis[1].coverage.num >= coordinates_analysis[1].coverage.den
  THEN [feasible |-> TRUE, method |-> "coordenadas_exactas", min_samples_met |-> TRUE]
  ELSE IF /\ municipality_analysis # << >>
          /\ municipality_analysis[1].unique_municipalities >= 5
  THEN [feasible |-> TRUE, method |-> "agregacion_municipal", min_samples_met |-> TRUE]
  ELSE [feasible |-> FALSE, method |-> "None", min_samples_met |-> TRUE]

\* _generate_geospatial_summary: the score.
_generate_geospatial_summary(quality, feasible) ==
  Frac(Min(100, (CASE quality = "excelente" -> 90
                   [] quality = "buena"     -> 70
                   [] quality = "parcial"   -> 50
                   [] quality = "basica"    -> 30
                   [] OTHER                 -> 0)
                + (IF feasible THEN 10 ELSE 0)),
       1)

\* _analyze_features, line 176: enough usable features.
MeetsMinimum(usable_features) == usable_features >= ML_MIN_FEATURES

\* A fault: a severe imbalance of the classes is taken as a blocker.
_assess_ml_viability_ImbalanceBlocks(n_samples, meets_minimum, severe, critical_leakage) ==
  [confidence |-> IF severe THEN "media"
                  ELSE IF n_samples < ML_MIN_SAMPLES THEN "nula" ELSE "alta",
   score |-> Frac(Max(0, 100 - (IF n_samples < ML_MIN_SAMPLES THEN 50 ELSE 0)
                             - (IF meets_minimum THEN 0 ELSE 30)
                             - (IF severe THEN 15 ELSE 0)
                             - (IF critical_leakage > 0 THEN 20 ELSE 0)),
                  1),
   viable |-> ~(n_samples < ML_MIN_SAMPLES) /\ meets_minimum /\ ~severe,
   n_blockers |-> (IF n_samples < ML_MIN_SAMPLES THEN 1 ELSE 0)
                  + (IF meets_minimum THEN 0 ELSE 1),
   n_warnings |-> (IF severe THEN 1 ELSE 0) + (IF critical_leakage > 0 THEN 1 ELSE 0)]

\* _assess_ml_viability: severe is balance_analysis being present with
\* balance_level "severamente_desbalanceado"; critical_leakage the number of
\* leakage risks of severity "critica".
_assess_ml_viability(n_samples, meets_minimum, severe, critical_leakage) ==
  [confidence |-> IF severe THEN "media"
                  ELSE IF n_samples < ML_MIN_SAMPLES THEN "nula" ELSE "alta",
   score |-> Frac(Max(0, 100 - (IF n_samples < ML_MIN_SAMPLES THEN 50 ELSE 0)
                             - (IF meets_minimum THEN 0 ELSE 30)
                             - (IF severe THEN 15 ELSE 0)
                             - (IF critical_leakage > 0 THEN 20 ELSE 0)),
                  1),
   viable |-> ~(n_samples < ML_MIN_SAMPLES) /\ meets_minimum,
   n_blockers |-> (IF n_samples < ML_MIN_SAMPLES THEN 1 ELSE 0)
                  + (IF meets_minimum THEN 0 ELSE 1),
   n_warnings |-> (IF severe THEN 1 ELSE 0) + (IF critical_leakage > 0 THEN 1 ELSE 0)]

\* Every analyzer starts with the same guard: an empty table raises ValueError.
Raise(type, msg) == [kind |-> "raise", type |-> type, message |-> msg]
Return(v) == [kind |-> "return", value |-> v]

EmptyMsg == "El DataFrame esta vacio"

analyze_completeness(t) ==
  IF IsEmpty(t) THEN Raise("ValueError", EmptyMsg) ELSE Return(analyze_completeness_body(t))

analyze_typology(t) ==
  IF IsEmpty(t) THEN Raise("ValueError", EmptyMsg) ELSE Return(analyze_typology_body(t))

analyze_semantic(t) ==
  IF IsEmpty(t) THEN Raise("ValueError", EmptyMsg) ELSE Return(analyze_semantic_body(t))

analyze_geospatial(t) ==
  IF IsEmpty(t) THEN Raise("ValueError", EmptyMsg) ELSE Return(analyze_geospatial_body(t))

analyze_anonymization(t) ==
  IF IsEmpty(t) THEN Raise("ValueError", EmptyMsg) ELSE Return(analyze_anonymization_body(t))

analyze_ml_readiness(t) ==
  IF IsEmpty(t) THEN Raise("ValueError", EmptyMsg) ELSE Return(analyze_ml_readiness_body(t))

\* analyzers[name](df)
RunAnalyzer(name, t) ==
  CASE name = "completeness"  -> analyze_completeness(t)
    [] name = "typology"      -> analyze_typology(t)
    [] name = "semantic"      -> analyze_semantic(t)
    [] name = "geospatial"    -> analyze_geospatial(t)
    [] name = "anonymization" -> analyze_anonymization(t)
    [] OTHER                  -> analyze_ml_readiness(t)

\* ------------------------------------------------------ Anonymizer (4.7)
\* _hash_value on the vocabulary and on its own outputs: sha256(v)[:16].
HashTable ==
  [v \in {"Ana Ruiz", "Luis Paz", "34", "51", "12345678Z",
          "2e4e636a6f70d6ef", "bd78a6fd355d1082", "86e5014965866131", "031b4af5197ec30a",
          "1c9f96328944627a"} |->
     CASE v = "Ana Ruiz" -> "2e4e636a6f70d6ef"
       [] v = "Luis Paz" -> "bd78a6fd355d1082"
       [] v = "34" -> "86e5014965866131"
       [] v = "51" -> "031b4af5197ec30a"
       [] v = "12345678Z" -> "1c9f96328944627a"
       [] v = "2e4e636a6f70d6ef" -> "853d77058e8c0eef"
       [] v = "bd78a6fd355d1082" -> "e015834e49b42d88"
       [] v = "86e5014965866131" -> "877c9408cf5f575b"
       [] v = "1c9f96328944627a" -> "585b58fb0005828b"
       [] OTHER -> "2ad9f3cff4d248c2"]

_hash_value(value) == HashTable[value]

\* f"PERSONA_{i+1}" for i+1 = 1, 2, ...
PersonaLabels == <<"PERSONA_1", "PERSONA_2", "PERSONA_3", "PERSONA_4">>

\* series.unique(): the distinct values in order of first appearance.
RECURSIVE Unique(_)
Unique(s) ==
  IF Len(s) = 0 THEN << >>
  ELSE LET front == Unique(SubSeq(s, 1, Len(s) - 1))
       IN IF s[Len(s)] \in SeqToSet(front) THEN front ELSE front \o <<s[Len(s)]>>

\* position of v in the sequence of distinct values u
IndexOf(u, v) == CHOOSE i \in 1..Len(u) : u[i] = v

_anonymize_names(series, strategy) ==
  IF strategy = "hash"
  THEN [series |-> [i \in 1..Len(series) |->
                      IF series[i] # NaN THEN _hash_value(series[i]) ELSE series[i]],
        transform |-> "hashed"]
  ELSE IF strategy = "mask"
  THEN LET unique_names == Unique(DropNa(series))
       IN [series |-> [i \in 1..Len(series) |->
                         IF series[i] \in SeqToSet(unique_names)
                         THEN PersonaLabels[IndexOf(unique_names, series[i])]
                         ELSE series[i]],
           transform |-> "masked"]
  ELSE [series |-> [i \in 1..Len(series) |-> NaN], transform |-> "removed"]

\* Vocabulary values with exactly one "@", and what mask_email makes of them.
MaskedEmail == [v \in {"ana@x.org", "usuario_anonimo@x.org"} |-> "usuario_anonimo@x.org"]

mask_email(email) ==
  IF email = NaN THEN email
  ELSE IF email \in DOMAIN MaskedEmail THEN MaskedEmail[email]
  ELSE "email_invalido"

_anonymize_emails(series) ==
  [series |-> [i \in 1..Len(series) |-> mask_email(series[i])],
   transform |-> "masked_preserving_domain"]

\* Vocabulary values with six digits or more, and what mask_phone makes of them.
MaskedPhone ==
  [v \in {"612345678", "12345678Z"} |-> IF v = "612345678" THEN "612XXXXXX" ELSE "123XXXXX"]

mask_phone(phone) ==
  IF phone = NaN THEN phone
  ELSE IF phone \in DOMAIN MaskedPhone THEN MaskedPhone[phone]
  ELSE "XXX"

_anonymize_phones(series) ==
  [series |-> [i \in 1..Len(series) |-> mask_phone(series[i])],
   transform |-> "masked_partial"]

\* Last word of the vocabulary values that have more than one word.
LastWord ==
  [v \in {"Ana Ruiz", "Luis Paz", "Calle Mayor 1 Madrid"} |->
     IF v = "Ana Ruiz" THEN "Ruiz" ELSE IF v = "Luis Paz" THEN "Paz" ELSE "Madrid"]

\* A faulty variant: an address of one word becomes null.
mask_address_NullForOneWord(addr) ==
  IF addr = NaN THEN addr
  ELSE IF addr \in DOMAIN LastWord THEN LastWord[addr]
  ELSE NaN

mask_address(addr) ==
  IF addr = NaN THEN addr
  ELSE IF addr \in DOMAIN LastWord THEN LastWord[addr]
  ELSE "LOCALIDAD_ANONIMA"

_anonymize_addresses(series) ==
  [series |-> [i \in 1..Len(series) |-> mask_address(series[i])],
   transform |-> "aggregated_to_municipality"]

_anonymize_ids(series, strategy) ==
  IF strategy = "hash"
  THEN [series |-> [i \in 1..Len(series) |->
                      IF series[i] # NaN THEN _hash_value(series[i]) ELSE series[i]],
        transform |-> "hashed"]
  ELSE [series |-> [i \in 1..Len(series) |-> NaN], transform |-> "removed"]

_anonymize_generic(series, strategy) ==
  IF strategy = "hash"
  THEN [series |-> [i \in 1..Len(series) |->
                      IF series[i] # NaN THEN _hash_value(series[i]) ELSE series[i]],
        transform |-> "hashed"]
  ELSE [series |-> [i \in 1..Len(series) |->
                      IF series[i] # NaN THEN "[REDACTADO]" ELSE series[i]],
        transform |-> "masked"]

\* dict[key] = value
DictSet(d, key, value) ==
  [k \in DOMAIN d \cup {key} |-> IF k = key THEN value ELSE d[k]]

EmptyDict == [k \in {} |-> k]

\* df_anon[col] = series
SetColumn(t, col, series) == [t EXCEPT !.data = DictSet(t.data, col, series)]

\* df_anon.drop(columns=[col])
DropColumn(t, col) ==
  [columns |-> FilterIn(t.columns, ColumnSet(t) \ {col}),
   nrows   |-> t.nrows,
   data    |-> [c \in ColumnSet(t) \ {col} |-> t.data[c]]]

\* A fault: a listed column the table does not have is recorded as skipped.
SkipMissing_Recorded(acc, col) ==
  [acc EXCEPT !.transformations = DictSet(@, col, "column_missing")]

\* anonymize_dataframe, lines 36-37: a listed column the table does not have
\* is passed over (`continue`).
SkipMissing(acc, col) == acc

\* One iteration of the loop over pii_columns, on the state
\* acc = [df_anon, transformations].
AnonymizeColumn(acc, col, strategy) ==
  LET df_anon == acc.df_anon
      Apply(r) == [df_anon |-> SetColumn(df_anon, col, r.series),
                   transformations |-> DictSet(acc.transformations, col, r.transform)]
  IN IF col \notin ColumnSet(df_anon) THEN SkipMissing(acc, col)
     ELSE IF AnyKeyword(col, {"nombre", "apellido", "person"})
          THEN Apply(_anonymize_names(df_anon.data[col], strategy))
     ELSE IF AnyKeyword(col, {"email", "correo"})
          THEN Apply(_anonymize_emails(df_anon.data[col]))
     ELSE IF AnyKeyword(col, {"telefono", "phone"})
          THEN Apply(_anonymize_phones(df_anon.data[col]))
     ELSE IF AnyKeyword(col, {"direccion", "address", "domicilio"})
          THEN Apply(_anonymize_addresses(df_anon.data[col]))
     ELSE IF AnyKeyword(col, {"dni", "rut", "cedula", "id"})
          THEN Apply(_anonymize_ids(df_anon.data[col], strategy))
     ELSE IF strategy = "remove"
          THEN [df_anon |-> DropColumn(df_anon, col),
                transformations |-> DictSet(acc.transformations, col, "column_removed")]
     ELSE Apply(_anonymize_generic(df_anon.data[col], strategy))

RECURSIVE AnonymizeFrom(_, _, _, _)
AnonymizeFrom(acc, pii_columns, k, strategy) ==
  IF k > Len(pii_columns) THEN acc
  ELSE AnonymizeFrom(AnonymizeColumn(acc, pii_columns[k], strategy), pii_columns, k + 1, strategy)

\* Works on df.copy(); returns (df_anon, transformations).
anonymize_dataframe(t, pii_columns, anonymization_strategy) ==
  AnonymizeFrom([df_anon |-> t, transformations |-> EmptyDict],
                pii_columns, 1, anonymization_strategy)

generate_anonymization_report(original_df, anonymized_df, transformations) ==
  [original_columns |-> Len(original_df.columns),
   anonymized_columns |-> Len(anonymized_df.columns),
   columns_removed |-> Len(original_df.columns) - Len(anonymized_df.columns),
   transformations_applied |-> Cardinality(DOMAIN transformations),
   transformation_details |-> transformations,
   data_preserved |->
     [rows |-> anonymized_df.nrows,
      usable_columns |->
        Cardinality({c \in ColumnSet(anonymized_df) :
                       Len(DropNa(anonymized_df.data[c])) > 0})]]

\* Values (after anonymization too) matched by the validator's patterns.
ResidualEmailValues == {"ana@x.org", "usuario_anonimo@x.org"}
ResidualDigitRunValues == {"612345678", "86e5014965866131", "1c9f96328944627a"}
ResidualNameValues == {"Ana Ruiz", "Luis Paz"}

\* The loop over df.columns, from column position k on.
RECURSIVE ValidateFrom(_, _)
ValidateFrom(t, k) ==
  IF k > Len(t.columns)
  THEN [is_safe |-> TRUE, warnings |-> << >>, residual_pii_risk |-> 0]
  ELSE LET col == t.columns[k]
           col_sample == Take(DropNa(t.data[col]), 100)
           emails == Len(FilterIn(col_sample, ResidualEmailValues)) > 0
           phones == Len(FilterIn(col_sample, ResidualDigitRunValues)) > 0
           names == Len(FilterIn(col_sample, ResidualNameValues)) > 10
           rest == ValidateFrom(t, k + 1)
       IN [is_safe |-> rest.is_safe /\ ~emails /\ ~names,
           warnings |-> (IF emails THEN <<[kind |-> "emails", column |-> col]>> ELSE << >>)
                        \o (IF phones THEN <<[kind |-> "telefonos", column |-> col]>> ELSE << >>)
                        \o (IF names THEN <<[kind |-> "nombres", column |-> col]>> ELSE << >>)
                        \o rest.warnings,
           residual_pii_risk |-> (IF emails THEN 10 ELSE 0) + (IF phones THEN 5 ELSE 0)
                                 + (IF names THEN 20 ELSE 0) + rest.residual_pii_risk]

validate_anonymization(t) == ValidateFrom(t, 1)

\* ------------------------------------------------ error placeholder, schema
_get_error_result(analyzer_name, error_msg) ==
  [summary |-> [error |-> TRUE, error_message |-> error_msg, analyzer |-> analyzer_name],
   recommendations |->
     <<[priority |-> "critica", field |-> "general",
        issue |-> analyzer_name, action |-> "Revisar logs para mas detalles",
        impact |-> "No se pudo completar este analisis"]>>,
   analysis_timestamp |-> Now]

\* Required fields of each result model of the schema.
RequiredFields ==
  [completitud |-> {"summary", "columns_analysis", "critical_fields_missing",
                    "top_missing_columns", "evaluation", "recommendations"},
   tipos |-> {"summary", "columns_typology", "inconsistencies", "encoding_issues",
              "recommendations", "analysis_timestamp"},
   semantica |-> {"summary", "edad_invalida", "fechas_incoherentes",
                  "metodos_no_estandarizados", "distribuciones_atipicas",
                  "valores_imposibles", "recommendations", "analysis_timestamp"},
   geoespacial |-> {"summary", "coordinates_analysis", "address_analysis",
                    "municipality_analysis", "geocoding_capability", "clustering_potential",
                    "required_fields", "recommendations", "analysis_timestamp"},
   anonimizacion |-> {"summary", "entities_found", "columns_with_pii", "risk_assessment",
                      "recommendations", "analysis_timestamp"},
   ml |-> {"summary", "target_column", "features_analysis", "balance_analysis",
           "leakage_risks", "correlation_analysis", "ml_viability", "model_suggestions",
           "recommendations", "analysis_timestamp"}]

\* List[Dict[str, str]]: no entry may hold a list, as a suggestion's "models" does.
IsListOfStrDict(entries) ==
  \A i \in 1..Len(entries) : "models" \notin DOMAIN entries[i]

\* ConsolidatedAnalysis(**consolidated_json) succeeds.
SchemaAccepts(consolidated) ==
  /\ "metadata" \in DOMAIN consolidated
  /\ \A key \in SlotKeys :
       /\ key \in DOMAIN consolidated
       /\ RequiredFields[key] \subseteq DOMAIN consolidated[key]
  /\ IsListOfStrDict(consolidated["ml"].model_suggestions)

\* validated.model_dump(): the declared fields of every model.
model_dump(consolidated) ==
  [k \in {"metadata"} \cup SlotKeys |->
     IF k = "metadata" THEN consolidated[k]
     ELSE [f \in RequiredFields[k] |-> consolidated[k][f]]]

\* ------------------------- what depends on the environment of a run
\* Iteration orders of the set issues_found: the order of a set of str follows
\* the strings' hashes, which are salted per process.
SetOrders ==
  {<<"utf8_latin1_mix", "escaped_characters">>, <<"escaped_characters", "utf8_latin1_mix">>}

\* pd.Timestamp.now() of a run, as the day YYYYMMDD.
Clock == {20250601, 20260601, 20270601}

\* Vocabulary values with a mis-decoded UTF-8 pair / with a literal \x or \u.
Utf8Latin1MixValues == {"EspaA+-a"}
EscapedCharacterValues == {"caf\\u00e9"}

\* issues_found after the loop over the series.
IssuesFound(series) ==
  (IF SeqToSet(series) \cap Utf8Latin1MixValues # {} THEN {"utf8_latin1_mix"} ELSE {})
  \cup (IF SeqToSet(series) \cap EscapedCharacterValues # {}
        THEN {"escaped_characters"} ELSE {})

\* examples before the cap of 5, from row i on (idx is 0-based).
RECURSIVE EncodingExamples(_, _)
EncodingExamples(series, i) ==
  IF i > Len(series) THEN << >>
  ELSE (IF series[i] \in Utf8Latin1MixValues
        THEN <<[row |-> i - 1, value |-> series[i],
                issue |-> "Posible mezcla UTF-8/Latin-1"]>> ELSE << >>)
       \o (IF series[i] \in EscapedCharacterValues
           THEN <<[row |-> i - 1, value |-> series[i],
                   issue |-> "Caracteres de escape sin procesar"]>> ELSE << >>)
       \o EncodingExamples(series, i + 1)

\* _detect_encoding_issues; ", ".join(issues_found) is the labels in the
\* set's iteration order. The object columns it is applied to hold only str.
_detect_encoding_issues(col, series, iteration) ==
  IF DType(col) # "object" \/ IssuesFound(series) = {}
  THEN [issue |-> << >>, examples |-> << >>]
  ELSE [issue |-> <<FilterIn(iteration, IssuesFound(series))>>,
        examples |-> Take(EncodingExamples(series, 1), 5)]

\* analyze_typology, lines 30-50: the encoding_issues list, from column k on.
RECURSIVE EncodingIssuesFrom(_, _, _)
EncodingIssuesFrom(t, iteration, k) ==
  IF k > Len(t.columns) THEN << >>
  ELSE LET col == t.columns[k]
           found == _detect_encoding_issues(col, t.data[col], iteration)
       IN (IF found.issue # << >>
           THEN <<[column |-> col, issue |-> found.issue[1],
                   examples |-> Take(found.examples, 3)]>>
           ELSE << >>)
          \o EncodingIssuesFrom(t, iteration, k + 1)

\* pd.to_datetime(..., errors='coerce') as the day YYYYMMDD; NaT otherwise.
NaT == 0

to_datetime(v) ==
  CASE v = "2026-01-15" -> 20260115
    [] v = "2027-01-15" -> 20270115
    [] OTHER -> NaT

\* _find_columns
_find_columns(t, keywords) ==
  SelectSeq(t.columns, LAMBDA col : AnyKeyword(col, keywords))

\* _analyze_dates, lines 181-191: the future dates of one column, from row i on.
RECURSIVE FutureDates(_, _, _, _)
FutureDates(t, col, today, i) ==
  IF i > t.nrows THEN << >>
  ELSE (IF to_datetime(t.data[col][i]) # NaT /\ to_datetime(t.data[col][i]) > today
        THEN <<[row |-> i - 1, columns |-> <<col>>, issue |-> t.data[col][i],
                severity |-> "alta"]>>
        ELSE << >>)
       \o FutureDates(t, col, today, i + 1)

RECURSIVE FutureDatesOf(_, _, _, _)
FutureDatesOf(t, date_cols, today, k) ==
  IF k > Len(date_cols) THEN << >>
  ELSE FutureDates(t, date_cols[k], today, 1) \o FutureDatesOf(t, date_cols, today, k + 1)

\* _analyze_dates. No column of the vocabulary names a birth, death, event or
\* notification date, so no pair of columns is checked for coherence.
_analyze_dates(t, date_cols, today) ==
  IF Len(date_cols) < 2 THEN << >> ELSE FutureDatesOf(t, date_cols, today, 1)

\* pd.to_numeric(errors='coerce') on the cells an age column can hold: the
\* number a cell is read as; a null or a cell that is no number has none.
NumericCells ==
  [c \in {"-5", "0", "34", "45", "100", "101", "120", "121", "150"} |->
     CASE c = "-5" -> -5 [] c = "0" -> 0 [] c = "34" -> 34 [] c = "45" -> 45
       [] c = "100" -> 100 [] c = "101" -> 101 [] c = "120" -> 120
       [] c = "121" -> 121 [] c = "150" -> 150]

to_numeric(v) == IF v \in DOMAIN NumericCells THEN <<NumericCells[v]>> ELSE << >>

\* A fault: the upper limit itself counts as impossible.
AgeIssue_AtLimit(idx, age) ==
  IF age < SEMANTIC_AGE_MIN
  THEN <<[row |-> idx, value |-> age, issue |-> "Edad negativa", severity |-> "critica"]>>
  ELSE IF age >= SEMANTIC_AGE_MAX
  THEN <<[row |-> idx, value |-> age, issue |-> "Edad superior a 120", severity |-> "critica"]>>
  ELSE IF age > 100
  THEN <<[row |-> idx, value |-> age, issue |-> "Edad muy alta", severity |-> "advertencia"]>>
  ELSE << >>

\* _analyze_age, lines 112-137: the issue of one age, if it has one.
AgeIssue(idx, age) ==
  IF age < SEMANTIC_AGE_MIN
  THEN <<[row |-> idx, value |-> age, issue |-> "Edad negativa", severity |-> "critica"]>>
  ELSE IF age > SEMANTIC_AGE_MAX
  THEN <<[row |-> idx, value |-> age, issue |-> "Edad superior a 120", severity |-> "critica"]>>
  ELSE IF age > 100
  THEN <<[row |-> idx, value |-> age, issue |-> "Edad muy alta", severity |-> "advertencia"]>>
  ELSE << >>

\* _analyze_age, lines 108-139: the loop over the rows, from position k on;
\* row labels start at 0 and a row without a number is passed over.
RECURSIVE AgeIssuesFrom(_, _)
AgeIssuesFrom(age_series, k) ==
  IF k > Len(age_series) THEN << >>
  ELSE (IF age_series[k] = << >> THEN << >> ELSE AgeIssue(k - 1, age_series[k][1]))
       \o AgeIssuesFrom(age_series, k + 1)

_analyze_age(t, col) ==
  AgeIssuesFrom([i \in 1..t.nrows |-> to_numeric(t.data[col][i])], 1)

\* analyze_semantic, lines 37-62, on a table without age, method or numeric
\* count columns: the date issues and the score.
SemanticOf(fechas_incoherentes) ==
  [fechas_incoherentes |-> fechas_incoherentes,
   score |-> _generate_semantic_summary(Len(fechas_incoherentes), 0)]

\* ------------------------------------- consumers of the consolidated JSON
\* d[k1][k2]... can be read: every key of the path is present.
RECURSIVE HasPath(_, _)
HasPath(d, path) ==
  \/ path = << >>
  \/ /\ Head(path) \in DOMAIN d
     /\ HasPath(d[Head(path)], Tail(path))

\* The first path of the list that cannot be read; None if all can.
RECURSIVE FirstMissing(_, _)
FirstMissing(d, paths) ==
  IF paths = << >> THEN << >>
  ELSE IF ~HasPath(d, Head(paths)) THEN <<Head(paths)>>
       ELSE FirstMissing(d, Tail(paths))

\* The subscripts of get_analysis_summary, in evaluation order.
SummaryReads ==
  << <<"metadata", "rows">>, <<"metadata", "columns">>, <<"metadata", "filename">>,
     <<"completitud", "evaluation", "score">>,
     <<"tipos", "summary", "quality_score">>,
     <<"semantica", "summary", "score">>,
     <<"geoespacial", "summary", "score">>,
     <<"ml", "ml_viability", "score">>,
     <<"anonimizacion", "summary", "pii_detected">>,
     <<"anonimizacion", "risk_assessment", "level">>,
     <<"completitud", "critical_fields_missing">>,
     <<"ml", "leakage_risks">>,
     <<"geoespacial", "summary", "geocodable">>,
     <<"ml", "ml_viability", "viable">>,
     <<"geoespacial", "clustering_potential", "feasible">> >>

\* The KeyError a subscript raises on the first unreadable path, if any.
KeyErrorOn(missing) ==
  IF missing = << >> THEN << >> ELSE <<Raise("KeyError", missing[1])>>

get_analysis_summary(c) ==
  LET err == KeyErrorOn(FirstMissing(c, SummaryReads))
  IN IF err # << >> THEN err[1]
     ELSE Return(
       [dataset |-> [rows |-> c["metadata"].rows, columns |-> c["metadata"].columns,
                     filename |-> c["metadata"].filename],
        scores |-> [completitud |-> c["completitud"].evaluation.score,
                    tipologia |-> c["tipos"].summary.quality_score,
                    semantica |-> c["semantica"].summary.score,
                    geoespacial |-> c["geoespacial"].summary.score,
                    ml_viabilidad |-> c["ml"].ml_viability.score],
        critical_issues |->
          [pii_detected |-> c["anonimizacion"].summary.pii_detected,
           pii_risk_level |-> c["anonimizacion"].risk_assessment.level,
           completitud_critica |-> c["completitud"].critical_fields_missing,
           leakage_risks |-> c["ml"].leakage_risks],
        capabilities |->
          [geocodable |-> c["geoespacial"].summary.geocodable,
           ml_viable |-> c["ml"].ml_viability.viable,
           clustering_feasible |-> c["geoespacial"].clustering_potential.feasible]])

\* The subscripts of _create_json_summary, in evaluation order; the risk
\* assessment is read only when PII was detected.
JsonSummaryReads(c) ==
  << <<"metadata", "rows">>, <<"metadata", "columns">>,
     <<"completitud", "evaluation", "score">>,
     <<"tipos", "summary", "quality_score">>,
     <<"semantica", "summary", "score">>,
     <<"geoespacial", "summary", "score">>,
     <<"anonimizacion", "summary", "pii_detected">> >>
  \o (IF HasPath(c, <<"anonimizacion", "summary", "pii_detected">>)
         /\ c["anonimizacion"].summary.pii_detected = TRUE
      THEN << <<"anonimizacion", "risk_assessment", "level">>,
              <<"anonimizacion", "risk_assessment", "score">> >>
      ELSE << >>)
  \o << <<"ml", "ml_viability", "viable">>, <<"ml", "ml_viability", "score">> >>

_create_json_summary(c) ==
  LET err == KeyErrorOn(FirstMissing(c, JsonSummaryReads(c)))
  IN IF err # << >> THEN err[1]
     ELSE Return(
       [dataset |-> <<c["metadata"].rows, c["metadata"].columns>>,
        scores |-> <<c["completitud"].evaluation.score, c["tipos"].summary.quality_score,
                     c["semantica"].summary.score, c["geoespacial"].summary.score>>,
        pii |-> IF c["anonimizacion"].summary.pii_detected = TRUE
                THEN <<c["anonimizacion"].risk_assessment.level,
                       c["anonimizacion"].risk_assessment.score>>
                ELSE << >>,
        ml |-> <<c["ml"].ml_viability.viable, c["ml"].ml_viability.score>>])

\* ------------------------------------------------------- Orchestrator (4.8)
VARIABLES
  pc,                   \* position of the caller / of run_parallel_analysis
  df,                   \* the caller's table object
  input_df,             \* its content when the call was made
  auto_anonymize,       \* argument of run_parallel_analysis
  metadata,             \* local of run_parallel_analysis (None before dispatch)
  future,               \* per analyzer: the state of its future
  results,              \* dict of _run_analyzers_parallel
  errors,               \* dict of _run_analyzers_parallel
  out_of_order,         \* some analyzer was collected out of submission order
  df_anonymized,        \* local (None before the anonymization decision)
  anonymization_report, \* local (None unless the Anonymizer ran)
  anonymizer_calls,     \* the calls made to anonymize_dataframe, in order
  consolidated_json,    \* local (None before consolidation)
  returned,             \* the tuple handed back to the caller (None before)
  exception,            \* the exception that left the call (None if none)
  single                \* outcome of a direct run_single_analyzer call

vars ==
  <<pc, df, input_df, auto_anonymize, metadata, future, results, errors, out_of_order,
    df_anonymized, anonymization_report, anonymizer_calls, consolidated_json, returned,
    exception, single>>

None == << >>
Some(v) == <<v>>

Running == [state |-> "running"]
Done(outcome, elapsed) == [state |-> "done", outcome |-> outcome, elapsed |-> elapsed]

\* How an analyzer's future can complete: with a result, in time or after more
\* than TIMEOUT_SECONDS of running; with an exception; with a TimeoutError
\* raised by the analyzer's own code.
Completions ==
  {Done("result", 1), Done("result", TIMEOUT_SECONDS + 1),
   Done("exception", 1), Done("timeout_error", 1)}

\* The completion of an analyzer that returns in time.
Nominal == Done("result", 1)

\* The futures that completed otherwise.
Faulted(f) == {a \in Analyzers : f[a].state = "done" /\ f[a] # Nominal}

ErrorText == "boom"

Strategies == {"hash", "mask", "remove"}

Init ==
  /\ pc = "idle"
  /\ df \in Tables
  /\ input_df = df
  /\ auto_anonymize \in BOOLEAN
  /\ metadata = None
  /\ future = [a \in Analyzers |-> [state |-> "none"]]
  /\ results = EmptyDict
  /\ errors = EmptyDict
  /\ out_of_order = FALSE
  /\ df_anonymized = None
  /\ anonymization_report = None
  /\ anonymizer_calls = << >>
  /\ consolidated_json = None
  /\ returned = None
  /\ exception = None
  /\ single = None

\* run_parallel_analysis, lines 49-50: an empty table is refused.
RejectEmpty ==
  /\ pc = "idle"
  /\ IsEmpty(df)
  /\ pc' = "raised"
  /\ exception' = Some(Raise("ValueError", EmptyMsg))
  /\ UNCHANGED <<df, input_df, auto_anonymize, metadata, future, results, errors,
                 out_of_order, df_anonymized, anonymization_report, anonymizer_calls,
                 consolidated_json, returned, single>>

\* run_parallel_analysis, lines 52-62: the metadata.
Enter ==
  /\ pc = "idle"
  /\ ~IsEmpty(df)
  /\ pc' = "dispatch"
  /\ metadata' = Some([filename |-> "dataset.csv",
                       rows |-> df.nrows,
                       columns |-> Len(df.columns),
                       column_names |-> df.columns,
                       analysis_date |-> Now,
                       auto_anonymized |-> auto_anonymize])
  /\ UNCHANGED <<df, input_df, auto_anonymize, future, results, errors, out_of_order,
                 df_anonymized, anonymization_report, anonymizer_calls, consolidated_json,
                 returned, exception, single>>

\* A faulty variant: the last analyzer of the dict is not submitted.
Submitted_SkipsLast ==
  [a \in Analyzers |->
     IF a = AnalyzerOrder[Len(AnalyzerOrder)] THEN [state |-> "none"] ELSE Running]

\* future_to_analyzer, lines 141-144: one future per entry of `analyzers`.
Submitted == [a \in Analyzers |-> Running]

\* _run_analyzers_parallel, lines 136-144: all six are submitted; the pool
\* has a worker for each.
Dispatch ==
  /\ pc = "dispatch"
  /\ Cardinality(Analyzers) <= MAX_WORKERS
  /\ pc' = "collecting"
  /\ future' = Submitted
  /\ UNCHANGED <<df, input_df, auto_anonymize, metadata, results, errors, out_of_order,
                 df_anonymized, anonymization_report, anonymizer_calls, consolidated_json,
                 returned, exception, single>>

\* A faulty variant: the n+1-th result handled goes to the n+1-th slot.
SlotName_ByArrival(analyzer_name, n) == AnalyzerOrder[n + 1]

\* Key under which the collecting loop stores what analyzer_name produced,
\* n results having been stored before.
SlotName(analyzer_name, n) == analyzer_name

\* What the collecting loop stores for a completed future: as_completed hands
\* over a future only when it is done, so result(timeout=TIMEOUT_SECONDS)
\* returns or re-raises at once, however long the analyzer ran.
Handled(analyzer_name, completion, call) ==
  IF completion.outcome = "timeout_error"
  THEN [error |-> Some("timeout"), value |-> _get_error_result(analyzer_name, "timeout")]
  ELSE IF completion.outcome = "exception"
  THEN [error |-> Some(ErrorText), value |-> _get_error_result(analyzer_name, ErrorText)]
  ELSE IF call.kind = "raise"
  THEN [error |-> Some(call.message),
        value |-> _get_error_result(analyzer_name, call.message)]
  ELSE [error |-> None, value |-> call.value]

\* The same, the analyzer having run on table t.
Collected(analyzer_name, completion, t) ==
  Handled(analyzer_name, completion, RunAnalyzer(analyzer_name, t))

\* Lines 150-163: the loop body stores `got`, the n+1-th outcome handled.
Store(a, n, got) ==
  /\ results' = DictSet(results, SlotName(a, n), got.value)
  /\ errors' = IF got.error = None THEN errors ELSE DictSet(errors, a, got.error[1])
  /\ out_of_order' = (out_of_order \/ AnalyzerOrder[n + 1] # a)

\* _run_analyzers_parallel, lines 147-163: one iteration of the loop over
\* as_completed, for the future of analyzer a completing as `completion`.
Collect(a, completion) ==
  /\ pc = "collecting"
  /\ future[a] = Running
  /\ completion = Nominal \/ Cardinality(Faulted(future)) < MaxFaults
  /\ Store(a, Cardinality(DOMAIN results), Collected(a, completion, df))
  /\ future' = [future EXCEPT ![a] = completion]
  /\ UNCHANGED <<pc, df, input_df, auto_anonymize, metadata, df_anonymized,
                 anonymization_report, anonymizer_calls, consolidated_json, returned,
                 exception, single>>

\* A faulty variant: the run goes on once the PII analyzer is done.
CollectionComplete_PiiOnly(f) == f["anonymization"].state = "done"

\* The `with` block of _run_analyzers_parallel is left when every future has
\* been handled.
CollectionComplete(f) == \A a \in Analyzers : f[a].state = "done"

\* A faulty variant: the auto_anonymize flag is not consulted.
AnonymizationDecision_IgnoresFlag(auto, r) ==
  IF "anonymization" \in DOMAIN r
  THEN IF "pii_detected" \notin DOMAIN r["anonymization"].summary THEN "KeyError"
       ELSE IF r["anonymization"].summary.pii_detected THEN "anonymize"
       ELSE "skip"
  ELSE "skip"

\* run_parallel_analysis, lines 72-75: what the run does after collection.
AnonymizationDecision(auto, r) ==
  IF auto /\ "anonymization" \in DOMAIN r
  THEN IF "pii_detected" \notin DOMAIN r["anonymization"].summary THEN "KeyError"
       ELSE IF r["anonymization"].summary.pii_detected THEN "anonymize"
       ELSE "skip"
  ELSE "skip"

\* A faulty variant: the report starts as an empty dict.
InitialReport_Empty == Some(EmptyDict)

\* anonymization_report before the decision, line 70.
InitialReport == None

\* run_parallel_analysis, lines 66-75.
Decide ==
  /\ pc = "collecting"
  /\ CollectionComplete(future)
  /\ df_anonymized' = Some(df)
  /\ anonymization_report' = InitialReport
  /\ LET decision == AnonymizationDecision(auto_anonymize, results)
     IN /\ pc' = CASE decision = "KeyError"  -> "raised"
                   [] decision = "anonymize" -> "anonymizing"
                   [] OTHER                  -> "consolidating"
        /\ exception' = IF decision = "KeyError"
                        THEN Some(Raise("KeyError", "pii_detected"))
                        ELSE exception
  /\ UNCHANGED <<df, input_df, auto_anonymize, metadata, future, results, errors,
                 out_of_order, anonymizer_calls, consolidated_json, returned, single>>

\* A faulty variant: the columns are rewritten in the caller's table.
TableAfterAnonymize_InPlace(t, pii_columns, strategy) ==
  anonymize_dataframe(t, pii_columns, strategy).df_anon

\* The caller's table after anonymize_dataframe(t, ...): the function works
\* on df.copy() (anonymizer.py line 32).
TableAfterAnonymize(t, pii_columns, strategy) == t

\* A call anonymize_dataframe(t, pii_columns, strategy) that produced `out`.
CallAnonymizer(t, pii_columns, strategy, out) ==
  /\ anonymizer_calls' =
       Append(anonymizer_calls, [df |-> t, pii_columns |-> pii_columns, strategy |-> strategy])
  /\ df' = TableAfterAnonymize(t, pii_columns, strategy)
  /\ df_anonymized' = Some(out.df_anon)

\* run_parallel_analysis, lines 84-93: the report and the check of the result.
ReportOn(original, out) ==
  DictSet(generate_anonymization_report(original, out.df_anon, out.transformations),
          "validation", validate_anonymization(out.df_anon))

\* run_parallel_analysis, lines 76-93, the Anonymizer having produced `out`.
AnonymizeAndReport(pii_columns, out) ==
  /\ CallAnonymizer(df, pii_columns, "mask", out)
  /\ anonymization_report' = Some(ReportOn(df', out))

\* A faulty variant: an unsafe validation result ends the run.
AfterValidation_Blocking(is_safe) == IF is_safe THEN "consolidating" ELSE "raised"

\* Position after the validation result is attached, lines 90-93: both
\* branches only log.
AfterValidation(is_safe) == "consolidating"

\* run_parallel_analysis, lines 76-93.
Anonymize ==
  /\ pc = "anonymizing"
  /\ AnonymizeAndReport(results["anonymization"].columns_with_pii,
                        anonymize_dataframe(df, results["anonymization"].columns_with_pii,
                                            "mask"))
  /\ pc' = AfterValidation(anonymization_report'[1].validation.is_safe)
  /\ UNCHANGED <<input_df, auto_anonymize, metadata, future, results, errors, out_of_order,
                 consolidated_json, returned, exception, single>>

\* A faulty variant: the schema error leaves the call.
AfterSchemaCheck_Raises(accepted) == IF accepted THEN "validated" ELSE "raised"

\* Position after the try/except around the schema check, lines 108-113.
AfterSchemaCheck(accepted) == IF accepted THEN "validated" ELSE "validation_warning"

\* consolidated_json as built on lines 97-105.
RawConsolidated(meta, r) ==
  [k \in {"metadata"} \cup SlotKeys |->
     IF k = "metadata" THEN meta
     ELSE r[CHOOSE a \in Analyzers : ConsolidatedKey[a] = k]]

\* consolidated_json after the try/except of lines 108-113.
Validated(raw) == IF SchemaAccepts(raw) THEN model_dump(raw) ELSE raw

\* run_parallel_analysis, lines 107-117: the schema check of `raw` and the
\* return.
CheckAndReturn(raw) ==
  /\ pc' = AfterSchemaCheck(SchemaAccepts(raw))
  /\ consolidated_json' = Some(Validated(raw))
  /\ IF pc' = "raised"
     THEN /\ returned' = None
          /\ exception' = Some(Raise("ValidationError", "schema"))
     ELSE /\ returned' = Some([consolidated_json |-> consolidated_json'[1],
                               df_anonymized |-> df_anonymized[1],
                               anonymization_report |-> anonymization_report])
          /\ exception' = exception

\* run_parallel_analysis, lines 95-117.
Consolidate ==
  /\ pc = "consolidating"
  /\ IF Analyzers \subseteq DOMAIN results
     THEN CheckAndReturn(RawConsolidated(metadata[1], results))
     ELSE /\ pc' = "raised"
          /\ exception' = Some(Raise("KeyError", "analysis_results"))
          /\ UNCHANGED <<consolidated_json, returned>>
  /\ UNCHANGED <<df, input_df, auto_anonymize, metadata, future, results, errors,
                 out_of_order, df_anonymized, anonymization_report, anonymizer_calls, single>>

\* anonymize_dataframe called directly by the caller, with any strategy.
AnonymizeDirect(pii_columns, strategy) ==
  /\ pc = "idle"
  /\ pc' = "anonymized_direct"
  /\ CallAnonymizer(df, pii_columns, strategy,
                    anonymize_dataframe(df, pii_columns, strategy))
  /\ UNCHANGED <<input_df, auto_anonymize, metadata, future, results, errors, out_of_order,
                 anonymization_report, consolidated_json, returned, exception, single>>

\* run_single_analyzer, lines 196-232: one analyzer called directly.
RunSingleAnalyzer(analyzer_name) ==
  /\ pc = "idle"
  /\ pc' = "single_done"
  /\ single' = Some([analyzer_name |-> analyzer_name,
                     call |-> IF analyzer_name \in Analyzers
                              THEN RunAnalyzer(analyzer_name, df)
                              ELSE Raise("ValueError", "no existe")])
  /\ UNCHANGED <<df, input_df, auto_anonymize, metadata, future, results, errors,
                 out_of_order, df_anonymized, anonymization_report, anonymizer_calls,
                 consolidated_json, returned, exception>>

\* ------------------------------------------- the functions called alone
\* A direct call of one function: only the caller's position and the record
\* of the call change.
CallFrame ==
  UNCHANGED <<df, input_df, auto_anonymize, metadata, future, results, errors, out_of_order,
              df_anonymized, anonymization_report, anonymizer_calls, consolidated_json,
              returned, exception>>

Called(fn, args, value) ==
  /\ pc = "idle"
  /\ pc' = "called"
  /\ single' = Some([fn |-> fn, args |-> args, value |-> value])
  /\ CallFrame

\* The tables the Anonymizer is called on directly.
AnonColumnChoices ==
  {<<"nombre", "email">>, <<"telefono", "direccion">>, <<"dni", "paciente">>,
   <<"edad", "tipo">>}

AnonTables == {MakeTable(cols, n) : cols \in AnonColumnChoices, n \in 0..MaxRows}

AnonInit ==
  /\ pc = "idle"
  /\ df \in AnonTables
  /\ input_df = df
  /\ auto_anonymize = TRUE
  /\ metadata = None
  /\ future = [a \in Analyzers |-> [state |-> "none"]]
  /\ results = EmptyDict
  /\ errors = EmptyDict
  /\ out_of_order = FALSE
  /\ df_anonymized = None
  /\ anonymization_report = None
  /\ anonymizer_calls = << >>
  /\ consolidated_json = None
  /\ returned = None
  /\ exception = None
  /\ single = None

\* anonymize_dataframe on its own result, with the same columns and strategy.
Rerun(out, pii_columns, strategy) ==
  [once |-> out, twice |-> anonymize_dataframe(out.df_anon, pii_columns, strategy)]

\* anonymize_dataframe(df, pii_columns, strategy), then the same call on the
\* table it returned.
AnonymizeTwice(pii_columns, strategy) ==
  Called("anonymize_dataframe", <<pii_columns, strategy>>,
         Rerun(anonymize_dataframe(df, pii_columns, strategy), pii_columns, strategy))

AnonNext ==
  \E strategy \in Strategies,
     pii_columns \in {df.columns, Take(df.columns, 1) \o <<"ausente">>,
                      SubSeq(df.columns, 2, 2)} :
    AnonymizeTwice(pii_columns, strategy)

AnonSpec == AnonInit /\ [][AnonNext]_vars

\* The tables an analyzer is run on twice.
DetColumnChoices ==
  {<<"observacion">>, <<"fecha_alta">>, <<"fecha_alta", "fecha_baja">>,
   <<"observacion", "fecha_alta">>, <<"fecha_baja", "fecha_alta">>,
   <<"observacion", "fecha_alta", "fecha_baja">>, <<"tipo", "observacion">>}

DetTables == {MakeTable(cols, n) : cols \in DetColumnChoices, n \in 1..MaxRows}

DetInit ==
  /\ pc = "idle"
  /\ df \in DetTables
  /\ input_df = df
  /\ auto_anonymize = TRUE
  /\ metadata = None
  /\ future = [a \in Analyzers |-> [state |-> "none"]]
  /\ results = EmptyDict
  /\ errors = EmptyDict
  /\ out_of_order = FALSE
  /\ df_anonymized = None
  /\ anonymization_report = None
  /\ anonymizer_calls = << >>
  /\ consolidated_json = None
  /\ returned = None
  /\ exception = None
  /\ single = None

\* analyze_typology(df) in two processes: the reported encoding issues.
RunTypologyTwice(iteration1, iteration2) ==
  Called("analyze_typology", <<iteration1, iteration2>>,
         [first |-> EncodingIssuesFrom(df, iteration1, 1),
          second |-> EncodingIssuesFrom(df, iteration2, 1)])

\* analyze_semantic(df) at two times: the date issues and the score.
RunSemanticTwice(today1, today2) ==
  Called("analyze_semantic", <<today1, today2>>,
         [first |-> SemanticOf(_analyze_dates(df, _find_columns(df, {"fecha", "date"}), today1)),
          second |-> SemanticOf(_analyze_dates(df, _find_columns(df, {"fecha", "date"}), today2))])

DetNext ==
  \/ \E iteration1 \in SetOrders, iteration2 \in SetOrders :
       RunTypologyTwice(iteration1, iteration2)
  \/ \E today1 \in Clock, today2 \in Clock : RunSemanticTwice(today1, today2)

DetSpec == DetInit /\ [][DetNext]_vars

ScoreCompleteness(missing_cells, total_cells, critical_missing_count) ==
  /\ missing_cells <= total_cells
  /\ Called("_evaluate_completeness", <<missing_cells, total_cells, critical_missing_count>>,
            _evaluate_completeness(missing_cells, total_cells, critical_missing_count))

ScoreTypology(total_cols, inconsistencies_count, encoding_issues_count) ==
  Called("_calculate_typology_score",
         <<total_cols, inconsistencies_count, encoding_issues_count>>,
         _calculate_typology_score(total_cols, inconsistencies_count, encoding_issues_count))

ScoreSemantic(critical_issues, other_issues) ==
  Called("_generate_semantic_summary", <<critical_issues + other_issues, critical_issues>>,
         _generate_semantic_summary(critical_issues + other_issues, critical_issues))

ScoreGeospatial(quality, feasible) ==
  Called("_generate_geospatial_summary", <<quality, feasible>>,
         _generate_geospatial_summary(quality, feasible))

ScoreMl(n_samples, meets_minimum, severe, critical_leakage) ==
  Called("_assess_ml_viability", <<n_samples, meets_minimum, severe, critical_leakage>>,
         _assess_ml_viability(n_samples, meets_minimum, severe, critical_leakage).score)

\* analyze_anonymization on the caller's table: the risk score in tenths.
ScorePii ==
  /\ ~IsEmpty(df)
  /\ Called("analyze_anonymization", <<df>>,
            Frac(analyze_anonymization_body(df).summary.risk_score, 10))

ScoreNext ==
  \/ \E total_cells \in 1..MaxIssues, missing_cells \in 0..MaxIssues,
        critical_missing_count \in 0..MaxIssues :
       ScoreCompleteness(missing_cells, total_cells, critical_missing_count)
  \/ \E total_cols \in 1..MaxIssues, inconsistencies_count \in 0..MaxIssues,
        encoding_issues_count \in 0..MaxIssues :
       ScoreTypology(total_cols, inconsistencies_count, encoding_issues_count)
  \/ \E critical_issues \in 0..(2 * MaxIssues), other_issues \in 0..MaxIssues :
       ScoreSemantic(critical_issues, other_issues)
  \/ \E quality \in GeocodingQualities, feasible \in BOOLEAN :
       ScoreGeospatial(quality, feasible)
  \/ \E n_samples \in {1, ML_MIN_SAMPLES - 1, ML_MIN_SAMPLES},
        meets_minimum \in BOOLEAN, severe \in BOOLEAN, critical_leakage \in 0..MaxIssues :
       ScoreMl(n_samples, meets_minimum, severe, critical_leakage)
  \/ ScorePii

ScoreSpec == Init /\ [][ScoreNext]_vars

\* analyze_anonymization, lines 57 and 69-88, from a normalised score in
\* tenths: the level and the two flags the result carries.
AssessRisk(risk_score) ==
  Called("_determine_risk_level", <<risk_score>>,
         [level |-> _determine_risk_level(risk_score),
          requires_action |-> RequiresAction(risk_score),
          critical |-> RequiresAction(risk_score)])

RiskNext == \E risk_score \in 0..MaxRiskScore_x10 : AssessRisk(risk_score)

RiskSpec == Init /\ [][RiskNext]_vars

\* Before any call, on one of the given tables.
IdleOn(tables) ==
  /\ pc = "idle"
  /\ df \in tables
  /\ input_df = df
  /\ auto_anonymize = TRUE
  /\ metadata = None
  /\ future = [a \in Analyzers |-> [state |-> "none"]]
  /\ results = EmptyDict
  /\ errors = EmptyDict
  /\ out_of_order = FALSE
  /\ df_anonymized = None
  /\ anonymization_report = None
  /\ anonymizer_calls = << >>
  /\ consolidated_json = None
  /\ returned = None
  /\ exception = None
  /\ single = None

\* What a cell of an age column holds: numbers written out, a text that is
\* no number, a null.
AgeCells == DOMAIN NumericCells \cup {"N/D", NaN}

\* Tables with an age column of up to MaxAgeRows rows.
AgeTables ==
  {[columns |-> <<"edad">>, nrows |-> Len(cells), data |-> [c \in {"edad"} |-> cells]] :
     cells \in UNION {[1..n -> AgeCells] : n \in 1..MaxAgeRows}}

AgeInit == IdleOn(AgeTables)

\* analyze_semantic, lines 37 and 43-44: the age column is looked up by
\* name and handed to _analyze_age.
RunAnalyzeAge ==
  LET edad_col == _find_column(df, {"edad", "age"}) IN
    /\ edad_col # None
    /\ Called("_analyze_age", <<edad_col[1]>>, _analyze_age(df, edad_col[1]))

AgeNext == RunAnalyzeAge

AgeSpec == AgeInit /\ [][AgeNext]_vars

\* analyze_ml_readiness, lines 47-52: the viability of a table with this many
\* rows and usable features, with or without a severe imbalance, and with
\* this many critical leakage risks.
AssessViability(n_samples, usable_features, severe, critical_leakage) ==
  Called("_assess_ml_viability", <<n_samples, usable_features, severe, critical_leakage>>,
         _assess_ml_viability(n_samples, MeetsMinimum(usable_features), severe,
                              critical_leakage))

MlNext ==
  \E n_samples \in {1, ML_MIN_SAMPLES - 1, ML_MIN_SAMPLES, ML_MIN_SAMPLES + 1},
     usable_features \in 0..MaxIssues, severe \in BOOLEAN, critical_leakage \in 0..MaxIssues :
    AssessViability(n_samples, usable_features, severe, critical_leakage)

MlSpec == Init /\ [][MlNext]_vars

\* The municipalities of the cases and the numbers of rows one of them has.
Municipalities == {"Madrid", "Getafe", "Leganes", "Alcorcon", "Mostoles"}
RowCounts == {0, 8, 9, 10, 11, 12}

GeoColumnChoices ==
  {<<"municipio">>, <<"latitud", "longitud">>, <<"latitud", "longitud", "municipio">>}

\* A table of the cases counted in `counts`, with `nulls` more rows without a
\* municipality: the municipality column by its content when the table has
\* it, and the number of rows with a valid pair of coordinates when it has
\* the two coordinate columns (0, just under half, half, rounded up).
GeoTable(cols, counts, nulls, share) ==
  LET n == SumOver(counts, DOMAIN counts) + nulls IN
    [columns |-> cols,
     nrows |-> n,
     municipio |-> IF "municipio" \in SeqToSet(cols) THEN <<counts>> ELSE << >>,
     valid_pairs |-> IF "latitud" \in SeqToSet(cols)
                     THEN <<CASE share = "none" -> 0
                              [] share = "under" -> (n - 1) \div 2
                              [] share = "half" -> (n + 1) \div 2>>
                     ELSE << >>]

GeoTables ==
  {GeoTable(cols, counts, nulls, share) :
     cols \in GeoColumnChoices, counts \in [Municipalities -> RowCounts],
     nulls \in {0, 1}, share \in {"none", "under", "half"}}

GeoInit == IdleOn({t \in GeoTables : t.nrows > 0})

\* analyze_geospatial, lines 28-61: the columns are looked up by name, the
\* coordinates and the municipalities analysed when the table has them, and
\* the clustering potential assessed.
AssessClustering ==
  LET lat_col == _find_column(df, {"latitud", "lat", "latitude"})
      lon_col == _find_column(df, {"longitud", "lon", "lng", "longitude"})
      municipality_col ==
        _find_column(df, {"municipio", "comuna", "city", "ciudad", "localidad"})
      coordinates_analysis ==
        IF lat_col # None /\ lon_col # None
        THEN <<_analyze_coordinates(df.nrows, df.valid_pairs[1])>> ELSE << >>
      municipality_analysis ==
        IF municipality_col # None
        THEN <<_analyze_municipalities(df.nrows, df.municipio[1])>> ELSE << >>
  IN Called("_assess_clustering_potential", <<coordinates_analysis, municipality_analysis>>,
            _assess_clustering_potential(df.nrows, coordinates_analysis,
                                         municipality_analysis))

GeoNext == AssessClustering

GeoSpec == GeoInit /\ [][GeoNext]_vars

\* The tables the validator is called on: one or two of these columns.
ValColumns == {"nombre", "email", "telefono", "direccion", "dni", "edad"}

ValTables ==
  {MakeTable(cols, n) :
     cols \in {<<c>> : c \in ValColumns}
              \cup {p \in ValColumns \X ValColumns : p[1] # p[2]},
     n \in 0..MaxRows}

ValInit == IdleOn(ValTables)

\* validate_anonymization(t), called on a table.
Validate(t) == Called("validate_anonymization", <<t>>, validate_anonymization(t))

\* The validator on the caller's table as it is, or on what
\* anonymize_dataframe makes of it with all its columns listed.
ValNext ==
  \E t \in {df} \cup {anonymize_dataframe(df, df.columns, strategy).df_anon :
                        strategy \in Strategies} :
    Validate(t)

ValSpec == ValInit /\ [][ValNext]_vars

Next ==
  \/ RejectEmpty
  \/ Enter
  \/ Dispatch
  \/ \E a \in Analyzers, completion \in Completions : Collect(a, completion)
  \/ Decide
  \/ Anonymize
  \/ Consolidate
  \/ \E name \in Analyzers \cup {"unknown"} : RunSingleAnalyzer(name)
  \/ \E strategy \in Strategies, pii_columns \in {df.columns, <<"nombre", "ausente">>} :
       AnonymizeDirect(pii_columns, strategy)

Spec == Init /\ [][Next]_vars

\* ------------------------------------------- a run under fair scheduling
\* The future of an analyzer whose call never returns: it stays pending.
Hanging == [state |-> "hung"]

\* An analyzer's worker enters a computation that does not terminate. Nothing
\* in lines 147-163 completes or abandons a pending future: as_completed is
\* called without a timeout and result(timeout=...) only on futures it yields.
Hang(a) ==
  /\ pc = "collecting"
  /\ future[a] = Running
  /\ \A b \in Analyzers : future[b] # Hanging
  /\ future' = [future EXCEPT ![a] = Hanging]
  /\ UNCHANGED <<pc, df, input_df, auto_anonymize, metadata, results, errors, out_of_order,
                 df_anonymized, anonymization_report, anonymizer_calls, consolidated_json,
                 returned, exception, single>>

\* The tables of the runs under fair scheduling.
LiveTables == {MakeTable(cols, n) : cols \in {<<"edad">>, <<"email">>}, n \in 0..MaxRows}

LiveInit ==
  /\ pc = "idle"
  /\ df \in LiveTables
  /\ input_df = df
  /\ auto_anonymize \in BOOLEAN
  /\ metadata = None
  /\ future = [a \in Analyzers |-> [state |-> "none"]]
  /\ results = EmptyDict
  /\ errors = EmptyDict
  /\ out_of_order = FALSE
  /\ df_anonymized = None
  /\ anonymization_report = None
  /\ anonymizer_calls = << >>
  /\ consolidated_json = None
  /\ returned = None
  /\ exception = None
  /\ single = None

\* The steps of run_parallel_analysis with analyzers that either return in
\* time or never terminate.
LiveNext ==
  \/ RejectEmpty
  \/ Enter
  \/ Dispatch
  \/ \E a \in Analyzers : Collect(a, Nominal)
  \/ \E a \in Analyzers : Hang(a)
  \/ Decide
  \/ Anonymize
  \/ Consolidate

\* Every thread that can take a step eventually takes one.
LiveSpec == LiveInit /\ [][LiveNext]_vars /\ WF_vars(LiveNext)

\* ------------------------------------------------------------ properties
\* Positions of a run of run_parallel_analysis that has ended.
Ended == {"validated", "validation_warning", "raised"}

\* A run was entered (the table was not refused).
InRun == metadata # None

\* The analyzer's future completed by raising (an exception or a TimeoutError).
Failed(a) == future[a].state = "done" /\ future[a].outcome \in {"exception", "timeout_error"}

\* C1: every run on a non-empty table that has ended, whatever analyzers
\* failed, has a consolidated structure with metadata and all six keys.
C1_AllSixKeys ==
  (pc \in Ended /\ InRun) =>
    /\ consolidated_json # None
    /\ ({"metadata"} \cup SlotKeys) \subseteq DOMAIN consolidated_json[1]

\* C2: an exception raised inside an analyzer never leaves
\* run_parallel_analysis.
C2_NoPropagation ==
  ~(pc = "raised" /\ InRun /\ \E a \in Analyzers : Failed(a))

\* C3: the slot of an analyzer that ran for more than TIMEOUT_SECONDS holds
\* the error placeholder with the message "timeout".
C3_TimeoutPlaceholder ==
  \A a \in Analyzers :
    (future[a].state = "done" /\ future[a].elapsed > TIMEOUT_SECONDS /\ a \in DOMAIN results)
      => results[a] = _get_error_result(a, "timeout")

\* The consolidated structure of the run on table t in which no analyzer fails.
FaultFree(t) ==
  Validated(RawConsolidated(metadata[1], [a \in Analyzers |-> RunAnalyzer(a, t).value]))

\* C4: a run in which exactly one analyzer failed, the others completing
\* nominally, returns a structure whose five other slots equal those of the
\* run without the failure.
C4_Isolation ==
  \A a \in Analyzers :
    (/\ pc \in Ended
     /\ InRun
     /\ Failed(a)
     /\ \A b \in Analyzers \ {a} : future[b] = Nominal)
    => /\ returned # None
       /\ \A b \in Analyzers \ {a} :
            returned[1].consolidated_json[ConsolidatedKey[b]]
              = FaultFree(input_df)[ConsolidatedKey[b]]

\* C5: when the schema rejects the consolidated structure the run does not
\* raise: it ends in validation_warning and returns the unvalidated structure,
\* the table and the anonymization report.
C5_SchemaFailureAdvisory ==
  (/\ consolidated_json # None
   /\ Analyzers \subseteq DOMAIN results
   /\ ~SchemaAccepts(RawConsolidated(metadata[1], results)))
  => /\ pc = "validation_warning"
     /\ exception = None
     /\ returned = Some([consolidated_json |-> RawConsolidated(metadata[1], results),
                         df_anonymized |-> df_anonymized[1],
                         anonymization_report |-> anonymization_report])

C5_Witness ==
  /\ pc = "validation_warning"
  /\ returned # None
  /\ ~SchemaAccepts(returned[1].consolidated_json)

\* The PII analyzer's result reports pii_detected = true.
ReportsPii ==
  /\ "anonymization" \in DOMAIN results
  /\ "pii_detected" \in DOMAIN results["anonymization"].summary
  /\ results["anonymization"].summary.pii_detected

\* C6: in a run the Anonymizer is called iff auto_anonymize is set and the
\* PII analyzer's result reports pii_detected; then once, on the original
\* table, with the result's columns_with_pii.
C6_AnonymizerIff ==
  /\ (InRun /\ pc \in {"consolidating", "validated", "validation_warning"}) =>
       anonymizer_calls =
         IF auto_anonymize /\ ReportsPii
         THEN <<[df |-> input_df,
                 pii_columns |-> results["anonymization"].columns_with_pii,
                 strategy |-> "mask"]>>
         ELSE << >>
  /\ (InRun /\ pc = "anonymizing") => (auto_anonymize /\ ReportsPii)
  /\ (InRun /\ pc \in {"dispatch", "collecting", "anonymizing", "raised"}) =>
       anonymizer_calls = << >>

C6_Witness ==
  /\ pc \in {"validated", "validation_warning"}
  /\ Len(anonymizer_calls) = 1
  /\ anonymizer_calls[1].pii_columns # << >>

\* The steps between positions that a run may take.
PhaseSteps ==
  {<<"idle", "dispatch">>, <<"idle", "raised">>, <<"dispatch", "collecting">>,
   <<"collecting", "anonymizing">>, <<"collecting", "consolidating">>,
   <<"collecting", "raised">>, <<"anonymizing", "consolidating">>,
   <<"consolidating", "validated">>, <<"consolidating", "validation_warning">>}

\* C7: a run moves dispatch, collecting, (anonymizing), consolidating,
\* validated or validation_warning; it leaves collecting for anonymizing or
\* consolidating only with all six slots resolved; every slot is filled from
\* the original table before any Anonymizer call; consolidation starts with
\* the anonymization decision made.
C7_PhaseOrder ==
  [][/\ (pc' # pc /\ pc' \notin {"single_done", "anonymized_direct"}) =>
          <<pc, pc'>> \in PhaseSteps
     /\ (pc = "collecting" /\ pc' \in {"anonymizing", "consolidating"}) =>
          Analyzers \subseteq DOMAIN results
     /\ (InRun /\ anonymizer_calls' # anonymizer_calls) =>
          (pc = "anonymizing" /\ Analyzers \subseteq DOMAIN results)
     /\ results' # results => (df = input_df /\ anonymizer_calls = << >>)
     /\ pc' = "consolidating" => df_anonymized' # None]_vars

C7_Witness ==
  /\ pc = "validated"
  /\ anonymizer_calls # << >>
  /\ Analyzers \subseteq DOMAIN results

\* C8: the caller's table always equals what it was when the call was made,
\* whether or not the Anonymizer ran and with any strategy.
C8_InputNotMutated == df = input_df

C8_Witness ==
  /\ pc \in {"validated", "validation_warning"}
  /\ anonymizer_calls # << >>
  /\ df_anonymized # None
  /\ df_anonymized[1] # input_df
  /\ df = input_df

\* C9: whatever the order in which the analyzers are collected, the slot of
\* every analyzer handled so far holds what that analyzer produced, and each
\* key of the returned structure holds what its own analyzer produced.
C9_KeyedByIdentity ==
  /\ \A a \in Analyzers :
       future[a].state = "done" =>
         (a \in DOMAIN results /\ results[a] = Collected(a, future[a], input_df).value)
  /\ returned # None =>
       \A a \in Analyzers :
         returned[1].consolidated_json[ConsolidatedKey[a]]
           = Collected(a, future[a], input_df).value

C9_Witness ==
  /\ returned # None
  /\ out_of_order
  /\ \E a \in Analyzers : Failed(a)

\* C10: on an empty table nothing is dispatched and nothing is returned:
\* run_parallel_analysis raises ValueError, and every analyzer called
\* directly raises.
C10_EmptyFailsFast ==
  (Len(input_df.columns) = 0 \/ input_df.nrows = 0) =>
    /\ pc \in {"idle", "raised", "single_done", "anonymized_direct"}
    /\ pc = "raised" => (exception # None /\ exception[1].type = "ValueError")
    /\ \A a \in Analyzers : future[a].state = "none"
    /\ results = EmptyDict
    /\ consolidated_json = None
    /\ returned = None
    /\ (single # None /\ single[1].analyzer_name \in Analyzers) =>
         single[1].call.kind = "raise"

C10_Witness ==
  /\ pc = "raised"
  /\ input_df.nrows = 0
  /\ Len(input_df.columns) > 0
  /\ exception = Some(Raise("ValueError", EmptyMsg))

\* C11: every score an analyzer computes lies in [0, 100], and the PII risk
\* score in [0, 10], whatever the numbers of issues, penalties and entities.
C11_ScoreBounds ==
  (single # None /\ pc = "called") =>
    /\ single[1].value.den > 0
    /\ 0 <= single[1].value.num
    /\ single[1].value.num <=
         (IF single[1].fn = "analyze_anonymization" THEN 10 ELSE 100) * single[1].value.den

\* A score that the clamp at 0 decides: 3 missing cells of 4 and 3 critical
\* fields missing.
C11_Witness ==
  /\ pc = "called"
  /\ single[1].fn = "_evaluate_completeness"
  /\ single[1].args = <<3, 4, 3>>
  /\ single[1].value = Frac(0, 4)

\* Vocabulary values that are 16 hexadecimal characters.
Hex16Values ==
  {"2e4e636a6f70d6ef", "bd78a6fd355d1082", "86e5014965866131", "031b4af5197ec30a",
   "1c9f96328944627a", "853d77058e8c0eef", "e015834e49b42d88", "877c9408cf5f575b",
   "585b58fb0005828b", "2ad9f3cff4d248c2"}

\* Vocabulary values in the format one of the masks writes.
MaskedValues ==
  {"PERSONA_1", "PERSONA_2", "PERSONA_3", "PERSONA_4", "usuario_anonimo@x.org",
   "email_invalido", "612XXXXXX", "123XXXXX", "XXX", "Madrid", "Ruiz", "Paz",
   "LOCALIDAD_ANONIMA", "[REDACTADO]"}

ValueType(v) ==
  IF v = NaN THEN "null"
  ELSE IF v \in Hex16Values THEN "hash"
  ELSE IF v \in MaskedValues THEN "masked"
  ELSE "raw"

\* The record of a call of anonymize_dataframe and of its repetition.
AnonCall == pc = "called" /\ single[1].fn = "anonymize_dataframe"

\* C12: repeating anonymize_dataframe on its result, with the same columns
\* and strategy, leaves every cell of a column that is still there of the
\* type it had: a hash stays a 16-character hexadecimal string, a masked
\* value a masked string, a null a null.
C12_TypeStable ==
  AnonCall =>
    LET once == single[1].value.once.df_anon
        twice == single[1].value.twice.df_anon
    IN /\ ColumnSet(twice) = ColumnSet(once)
       /\ \A c \in ColumnSet(once) :
            \A i \in 1..once.nrows :
              /\ ValueType(twice.data[c][i]) = ValueType(once.data[c][i])
              /\ c \in DOMAIN single[1].value.once.transformations
                   => ValueType(once.data[c][i]) \in {"null", "hash", "masked"}

\* A hashed value hashed again.
C12_Witness ==
  /\ AnonCall
  /\ single[1].args[2] = "hash"
  /\ "dni" \in ColumnSet(single[1].value.once.df_anon)
  /\ single[1].value.once.df_anon.data["dni"][1] = "1c9f96328944627a"
  /\ single[1].value.twice.df_anon.data["dni"][1] = "585b58fb0005828b"

\* C13: the placeholder in the slot of a failed analyzer has summary.error
\* true, exactly one recommendation, of priority critica and naming the
\* analyzer, and has every field the schema requires of that analyzer's result.
C13_PlaceholderValid ==
  \A a \in Analyzers :
    (Failed(a) /\ a \in DOMAIN results) =>
      /\ results[a].summary.error = TRUE
      /\ Len(results[a].recommendations) = 1
      /\ results[a].recommendations[1].priority = "critica"
      /\ results[a].recommendations[1].issue = a
      /\ RequiredFields[ConsolidatedKey[a]] \subseteq DOMAIN results[a]

\* C14: for every consolidated structure that a run returns, whichever
\* analyzers failed, get_analysis_summary and _create_json_summary return a
\* result and do not raise.
C14_ConsumersTolerate ==
  returned # None =>
    /\ get_analysis_summary(returned[1].consolidated_json).kind = "return"
    /\ _create_json_summary(returned[1].consolidated_json).kind = "return"

\* C15: two runs of the same analyzer on the same table, in different
\* processes or at different times, report the same scores, issues and
\* encoding labels.
C15_Deterministic ==
  (single # None /\ single[1].fn \in {"analyze_typology", "analyze_semantic"})
    => single[1].value.first = single[1].value.second

\* C16: when the validator reports is_safe = false for the anonymized table
\* of a run, the run does not raise and goes on to consolidation; once ended,
\* it has returned the anonymized table, the consolidated structure and the
\* report with the validation result attached.
C16_ValidationAdvisory ==
  (/\ InRun
   /\ anonymization_report # None
   /\ ~anonymization_report[1].validation.is_safe)
  => /\ pc \in {"consolidating", "validated", "validation_warning"}
     /\ exception = None
     /\ pc = "consolidating" => ENABLED Consolidate
     /\ pc \in Ended =>
          /\ returned # None
          /\ returned[1].consolidated_json = consolidated_json[1]
          /\ returned[1].df_anonymized =
               anonymize_dataframe(input_df, results["anonymization"].columns_with_pii,
                                   "mask").df_anon
          /\ returned[1].anonymization_report # None
          /\ returned[1].anonymization_report[1].validation =
               validate_anonymization(returned[1].df_anonymized)

C16_Witness ==
  /\ InRun
  /\ pc \in {"validated", "validation_warning"}
  /\ returned # None
  /\ returned[1].anonymization_report # None
  /\ ~returned[1].anonymization_report[1].validation.is_safe
  /\ returned[1].df_anonymized # input_df

\* C17: under the remove strategy every column of pii_columns that exists in
\* the table is absent from the returned table and is recorded as removed in
\* the transformation map, whatever its name.
C17_RemoveDrops ==
  (AnonCall /\ single[1].args[2] = "remove") =>
    \A c \in SeqToSet(single[1].args[1]) \cap ColumnSet(df) :
      /\ c \notin ColumnSet(single[1].value.once.df_anon)
      /\ c \in DOMAIN single[1].value.once.transformations
      /\ single[1].value.once.transformations[c] \in {"removed", "column_removed"}

\* The redaction the mask strategy is to apply to a cell of a column of the
\* given kind, `before` being the column before the call.
MaskExpected(c, before, i) ==
  IF before[i] = NaN THEN NaN
  ELSE IF AnyKeyword(c, {"nombre", "apellido", "person"})
       THEN PersonaLabels[IndexOf(Unique(DropNa(before)), before[i])]
  ELSE IF AnyKeyword(c, {"email", "correo"}) THEN mask_email(before[i])
  ELSE IF AnyKeyword(c, {"telefono", "phone"}) THEN mask_phone(before[i])
  ELSE IF AnyKeyword(c, {"direccion", "address", "domicilio"}) THEN mask_address(before[i])
  ELSE IF AnyKeyword(c, {"dni", "rut", "cedula", "id"}) THEN _hash_value(before[i])
  ELSE "[REDACTADO]"

\* C18: under the mask strategy every cell of a processed column holds the
\* redaction of its kind: a pseudonym for a name, the domain-preserving
\* placeholder for an email, the partially masked digits for a phone, the last
\* token for an address, and the hash of the value for an ID.
C18_MaskByKind ==
  (AnonCall /\ single[1].args[2] = "mask") =>
    \A c \in SeqToSet(single[1].args[1]) \cap ColumnSet(df) :
      /\ c \in ColumnSet(single[1].value.once.df_anon)
      /\ \A i \in 1..df.nrows :
           single[1].value.once.df_anon.data[c][i] = MaskExpected(c, df.data[c], i)

\* C19: under fair scheduling a run that is collecting leaves the collecting
\* state, even if one analyzer never completes: in no state is the run still
\* collecting with neither a completion left to handle (the guard of Collect)
\* nor the loop finished (the guard of Decide).
C19_CollectionEnds ==
  pc = "collecting" =>
    \/ \E a \in Analyzers : future[a] = Running
    \/ CollectionComplete(future)

\* C20: a run in which all six analyzers completed without error ends in
\* validated, never in validation_warning, and returns the structure the
\* schema validated.
C20_NominalValidated ==
  (InRun /\ pc \in Ended /\ errors = EmptyDict) =>
    /\ pc = "validated"
    /\ returned # None
    /\ SchemaAccepts(RawConsolidated(metadata[1], results))
    /\ returned[1].consolidated_json = model_dump(RawConsolidated(metadata[1], results))

\* C21: the futures change only when all six analyzers are submitted at
\* once, from no future at all, or when one running future completes; the
\* result map changes only with such a completion, which adds the key of that
\* analyzer, absent until then, and leaves the other slots as they are; the
\* collecting state is left with exactly the six analyzer names as keys.
C21_OncePerAnalyzer ==
  [][/\ future' # future =>
          \/ /\ pc = "dispatch"
             /\ \A a \in Analyzers : future[a].state = "none" /\ future'[a] = Running
          \/ \E a \in Analyzers :
               /\ future[a] = Running
               /\ future'[a].state = "done"
               /\ \A b \in Analyzers \ {a} : future'[b] = future[b]
               /\ a \notin DOMAIN results
               /\ DOMAIN results' = DOMAIN results \cup {a}
               /\ \A b \in DOMAIN results : results'[b] = results[b]
     /\ results' # results => future' # future
     /\ (pc = "collecting" /\ pc' # "collecting") => DOMAIN results = Analyzers]_vars

C21_Witness ==
  /\ pc \in {"validated", "validation_warning"}
  /\ DOMAIN results = Analyzers
  /\ DOMAIN errors = {"completeness", "ml_readiness"}
  /\ \A a \in Analyzers : future[a].state = "done"

\* C22: a run that returns without having called the Anonymizer returns a
\* table equal cell for cell to the input table and no anonymization report;
\* the returned report is present exactly when the Anonymizer was called.
C22_UntouchedWhenNotAnonymized ==
  (InRun /\ returned # None) =>
    /\ anonymizer_calls = << >> =>
         /\ returned[1].df_anonymized = input_df
         /\ returned[1].anonymization_report = None
    /\ returned[1].anonymization_report # None <=> anonymizer_calls # << >>

C22_Witness ==
  /\ InRun
  /\ returned # None
  /\ anonymizer_calls = << >>
  /\ ~auto_anonymize
  /\ ReportsPii
  /\ returned[1].df_anonymized = input_df
  /\ returned[1].anonymization_report = None

\* C23: in the structure a run returns, metadata.auto_anonymized is true
\* exactly when the Anonymizer was called in that run, that is, when the
\* returned table is the Anonymizer's output.
C23_FlagIffAnonymized ==
  (InRun /\ returned # None) =>
    /\ returned[1].consolidated_json["metadata"].auto_anonymized
         <=> anonymizer_calls # << >>
    /\ anonymizer_calls # << >> =>
         returned[1].df_anonymized =
           anonymize_dataframe(input_df, anonymizer_calls[1].pii_columns, "mask").df_anon

\* The PII analyzer's own result in the collected results (not an error
\* placeholder written for it).
PiiResult ==
  /\ "anonymization" \in DOMAIN results
  /\ "anonymization" \notin DOMAIN errors

\* C24: in every result of the PII analyzer, pii_detected holds iff
\* columns_with_pii is non-empty, iff entities_found is non-empty, iff the
\* risk score is above 0; columns_with_pii_count is the length of
\* columns_with_pii, and every entity's column is one of columns_with_pii.
C24_PiiConsistent ==
  PiiResult =>
    LET r == results["anonymization"] IN
      /\ r.summary.pii_detected <=> Len(r.columns_with_pii) > 0
      /\ r.summary.pii_detected <=> Len(r.entities_found) > 0
      /\ r.summary.pii_detected <=> r.summary.risk_score > 0
      /\ r.summary.columns_with_pii_count = Len(r.columns_with_pii)
      /\ \A i \in 1..Len(r.entities_found) :
           r.entities_found[i].column \in SeqToSet(r.columns_with_pii)

\* A result with one PII column of two: the names are found, the type
\* column is not.
C24_Witness ==
  /\ PiiResult
  /\ df.columns = <<"nombre", "tipo">>
  /\ results["anonymization"].summary.pii_detected
  /\ results["anonymization"].columns_with_pii = <<"nombre">>
  /\ results["anonymization"].summary.columns_with_pii_count = 1
  /\ results["anonymization"].summary.risk_score > 0
  /\ \E i \in 1..Len(results["anonymization"].entities_found) :
       results["anonymization"].entities_found[i].column = "nombre"

\* C25: for every strategy, anonymize_dataframe leaves every column that is
\* not listed as it was, keeps the number of rows, creates no column for a
\* listed name the table does not have, and returns a transformation map
\* whose keys are the listed columns that the table has.
C25_FrameOfAnonymize ==
  AnonCall =>
    LET pii_columns == single[1].args[1]
        out == single[1].value.once
    IN /\ \A c \in ColumnSet(df) \ SeqToSet(pii_columns) :
            /\ c \in ColumnSet(out.df_anon)
            /\ out.df_anon.data[c] = df.data[c]
       /\ FilterIn(df.columns, ColumnSet(df) \ SeqToSet(pii_columns))
            = FilterIn(out.df_anon.columns, ColumnSet(df) \ SeqToSet(pii_columns))
       /\ out.df_anon.nrows = df.nrows
       /\ \A c \in ColumnSet(out.df_anon) : Len(out.df_anon.data[c]) = df.nrows
       /\ ColumnSet(out.df_anon) \subseteq ColumnSet(df)
       /\ DOMAIN out.transformations = SeqToSet(pii_columns) \cap ColumnSet(df)

\* A call that lists one column of two and a name the table does not have,
\* with the strategy that drops the column.
C25_Witness ==
  /\ AnonCall
  /\ df.columns = <<"edad", "tipo">>
  /\ df.nrows = MaxRows
  /\ single[1].args = <<(<<"edad", "ausente">>), "remove">>
  /\ single[1].value.once.df_anon.columns = <<"tipo">>
  /\ single[1].value.once.df_anon.data["tipo"] = df.data["tipo"]
  /\ DOMAIN single[1].value.once.transformations = {"edad"}

\* The record of the risk assessment of one score.
RiskCall == pc = "called" /\ single[1].fn = "_determine_risk_level"

AgeCall == pc = "called" /\ single[1].fn = "_analyze_age"

\* The issues reported for the row labelled idx.
IssuesOfRow(issues, idx) == {i \in 1..Len(issues) : issues[i].row = idx}

\* C27: for an age column the Semantic Analyzer reports, for each value that
\* is a number, exactly one issue when it is negative (critica), when it is
\* above 120 (critica) or when it is above 100 and at most 120
\* (advertencia), and none otherwise; the ages -5, 34, 150, 45 give exactly
\* two issues, both critical, at rows 0 and 2.
C27_AgeIssues ==
  AgeCall =>
    LET cells == df.data[single[1].args[1]]
        issues == single[1].value
    IN /\ \A k \in 1..Len(cells) :
            cells[k] \in DOMAIN NumericCells =>
              LET age == NumericCells[cells[k]]
                  found == IssuesOfRow(issues, k - 1)
              IN /\ age < 0 =>
                      Cardinality(found) = 1 /\ \A i \in found : issues[i].severity = "critica"
                 /\ age > 120 =>
                      Cardinality(found) = 1 /\ \A i \in found : issues[i].severity = "critica"
                 /\ (age > 100 /\ age <= 120) =>
                      Cardinality(found) = 1
                      /\ \A i \in found : issues[i].severity = "advertencia"
                 /\ (0 <= age /\ age <= 100) => found = {}
                 /\ \A i \in found : issues[i].value = age
       /\ cells = <<"-5", "34", "150", "45">> =>
            /\ Len(issues) = 2
            /\ issues[1].row = 0 /\ issues[1].severity = "critica"
            /\ issues[2].row = 2 /\ issues[2].severity = "critica"

\* The ages -5, 34, 150, 45: two critical issues, at rows 0 and 2.
C27_Witness ==
  /\ AgeCall
  /\ df.data["edad"] = <<"-5", "34", "150", "45">>
  /\ Len(single[1].value) = 2
  /\ single[1].value[1] =
       [row |-> 0, value |-> -5, issue |-> "Edad negativa", severity |-> "critica"]
  /\ single[1].value[2].row = 2
  /\ single[1].value[2].severity = "critica"

\* The record of an assessment of the ML viability.
MlCall == pc = "called" /\ single[1].fn = "_assess_ml_viability"

\* C28: the ML viability score is max(0, 100 - 50 when the samples are below
\* ML_MIN_SAMPLES - 30 when the usable features are below ML_MIN_FEATURES
\* - 15 for a severe imbalance - 20 when some leakage risk is critical);
\* viable is false exactly when the sample floor or the feature floor is
\* unmet, which is exactly when there is a blocker; imbalance and leakage
\* alone never make it false.
C28_MlViability ==
  MlCall =>
    LET n_samples == single[1].args[1]
        usable_features == single[1].args[2]
        severe == single[1].args[3]
        critical_leakage == single[1].args[4]
        v == single[1].value
        few_samples == n_samples < ML_MIN_SAMPLES
        few_features == usable_features < ML_MIN_FEATURES
        expected == 100 - (IF few_samples THEN 50 ELSE 0) - (IF few_features THEN 30 ELSE 0)
                        - (IF severe THEN 15 ELSE 0)
                        - (IF critical_leakage > 0 THEN 20 ELSE 0)
    IN /\ v.score = Frac(IF expected > 0 THEN expected ELSE 0, 1)
       /\ v.viable <=> ~(few_samples \/ few_features)
       /\ v.viable <=> v.n_blockers = 0

\* Both floors met, with a severe imbalance and a critical leakage risk: the
\* score is 65 and the table is still viable.
C28_Witness ==
  /\ MlCall
  /\ single[1].args = <<ML_MIN_SAMPLES, ML_MIN_FEATURES, TRUE, 1>>
  /\ single[1].value.viable
  /\ single[1].value.n_blockers = 0
  /\ single[1].value.n_warnings = 2
  /\ single[1].value.score = Frac(65, 1)

\* The record of an assessment of the clustering potential.
GeoCall == pc = "called" /\ single[1].fn = "_assess_clustering_potential"

\* The municipalities a table's municipality column holds.
DistinctMunicipalities(t) ==
  IF t.municipio = << >> THEN {} ELSE {m \in DOMAIN t.municipio[1] : t.municipio[1][m] > 0}

\* C29: clustering_potential.feasible holds exactly when the table has at
\* least GEOSPATIAL_MIN_POINTS rows and either the share of rows with valid
\* coordinates is at least one half or the municipality column holds at
\* least 5 distinct municipalities.
C29_ClusteringFeasible ==
  GeoCall =>
    (single[1].value.feasible <=>
       /\ df.nrows >= GEOSPATIAL_MIN_POINTS
       /\ \/ df.valid_pairs # << >> /\ 2 * df.valid_pairs[1] >= df.nrows
          \/ Cardinality(DistinctMunicipalities(df)) >= 5)

\* The record of a call of validate_anonymization.
ValCall == pc = "called" /\ single[1].fn = "validate_anonymization"

\* C30: validate_anonymization reports is_safe exactly when it found no
\* residual PII signature: is_safe holds iff the warnings list is empty and
\* residual_pii_risk is 0, for every table.
C30_SafeIffClean ==
  ValCall =>
    (single[1].value.is_safe <=>
       /\ single[1].value.warnings = << >>
       /\ single[1].value.residual_pii_risk = 0)

====
